---- MODULE Spec2Model ----
(***************************************************************************)
(* The capture session of speechlab-twitter-space-agent: the orchestrator  *)
(* (src/index.js and its earlier variant), the transport channel           *)
(* (src/audio/websocket-client.js) and the teardown.                       *)
(*                                                                         *)
(* A socket is a record; the sockets ever created are the sequence socks,  *)
(* a socket's identity is its index, 0 stands for null.                    *)
(***************************************************************************)
EXTENDS Integers, Sequences, FiniteSets, TLC

\* ---- bounds of the model ------------------------------------------------
MaxSockets == 2      \* sockets created in one run of the session
MaxAttempts == 3     \* sockets created in one run of the connection phase
MaxBeats == 2        \* heartbeat messages sent on one socket
MaxEvals == 2        \* page.evaluate calls of the drain in flight at one time
MaxChunks == 2       \* audio chunks produced in one run
MaxSelectors == 2    \* entries of a selector list that are tried
MaxTexts == 1        \* entries of buttonTexts that are tried
MaxCands == 2        \* elements one in-page search returns
MaxArea == 2         \* visible area of an element
MaxRooms == 2        \* rooms with an identifier that a discovery can return
MaxPolls == 2        \* interval ticks of the monitor
MaxSpaces == 3       \* rooms of one discovery result
MaxListeners == 3    \* listeners of one room
MaxCards == 2        \* cards on the discovery page
MaxHrefLen == 3      \* pieces of the link of a card
MaxUrlLen == 4       \* pieces of the URL given to joinTwitterSpace
MaxArrivals == 102   \* blocks of samples given to onaudioprocess
MaxDrains == 2       \* calls of getAudioData
MaxChain == 12       \* sockets of a run of audio-capture.js's reconnects
MaxSample == 33000   \* largest numerator k of a sample k / scale

\* ---- program constants -------------------------------------------------
MAX_RETRIES == 5               \* websocket-client.js
maxReconnectAttempts == 10     \* audio-capture.js, connectToWebSocket
NORMAL_CLOSURE == 1000
audioBufferCap == 100          \* audio-capture.js, the in-page audioBuffer
maxClickAttempts == 3          \* joinTwitterSpace: click methods per selector
topButtons == 5                \* joinTwitterSpace: largest buttons that are clicked
numPositions == 5              \* joinTwitterSpace: entries of commonPositions
maxAttempts == 5               \* audio-capture.js, the checks for media elements
scale == 32767                 \* audio-capture.js, the factor of the S16LE conversion

\* The repository holds three orchestrators: src/index.js ("index"), its
\* earlier form ("orig") and the one built on audio-capture.js's own
\* connectToWebSocket ("second"). One of them runs.
Variants == {"index", "orig", "second"}
ClientVariants == {"index", "orig"}   \* those that use websocket-client.js
\* the endpoint: a ws:// URL, one the WebSocket constructor refuses, or none
Endpoints == {"ws", "bad", "none"}
Signals == {"SIGINT", "SIGTERM"}
\* close codes a peer or the network can end an open connection with
RemoteCodes == {1000, 1006}

VARIABLES
  variant,            \* which orchestrator file runs
  endpoint,           \* websocketEndpoint: a ws:// URL, or one the constructor refuses
  hasUrl,             \* options.url is given
  testMode, keepVm,   \* options.testMode, options.keepVm
  hasRecorder,        \* audioCapture.recorder is set
  pc,                 \* position of main()
  proc,               \* "running", or how the process ended
  handlers,           \* the signals main has registered a handler for
  vmInfo, browser, audioCapture,   \* index.js globals: TRUE when not null
  mainWs,             \* index.js global wsConnection: a socket, 0 when null
  socks,              \* the sockets created so far
  wsConnection,       \* websocket-client.js module variable: a socket, 0 when null
  connectionRetries,  \* websocket-client.js module variable
  ws,                 \* audio-capture.js connectToWebSocket: the closure's socket
  connected,          \* audio-capture.js connectToWebSocket: the closure's flag
  reconnectAttempt,   \* audio-capture.js connectToWebSocket: the closure's counter
  timers,             \* reconnect timeouts that are pending
  scheduled,          \* reconnect timeouts set so far
  connP,              \* the promise main awaits: "idle", "pending", "resolved", "rejected"
  hbLive,             \* sockets whose connect call's heartbeat interval is active
  recording,          \* the recorder runs
  produced,           \* chunks the recorder has emitted
  fileLen,            \* chunks written to the backup file
  lastChunk,          \* the last chunk the recorder emitted: "ok", "bad"
  lastSend,           \* the outcome of the last per-chunk send: "true", "false", "threw"
  sentLog,            \* the chunks handed to an open socket's send, in the order of the sends
  pageBuf,            \* the in-page audioBuffer: the chunks not yet drained
  evals,              \* the page.evaluate calls of the drain that have not settled
  cleared,            \* the drain's catch block has cleared the interval
  runs,               \* the cleanup() calls in progress
  delivered,          \* the shutdown signals delivered so far (each at most once)
  jv,                 \* which browser-automation file provides joinTwitterSpace
  jpc,                \* position of joinTwitterSpace
  isValidSpace,       \* the page passes the validity check
  alreadyInSpace,     \* the page shows the session as joined
  audio,              \* the page holds an audio or video element
  item,               \* index in the list the current strategy walks
  elem,               \* the current selector has resolved to an element
  attempt,            \* index of the click method tried next on that element
  searched,           \* the current in-page search has returned
  cands,              \* elements of that search still to be clicked, as areas
  buttonFound,        \* a check has seen the audio signal after a click
  clickAttempts,      \* click attempts made so far
  checks,             \* audio checks made after a click so far
  lastClick,          \* the last click attempt: strategy, item, position, area
  exhausted,          \* every strategy was tried and none was seen to succeed
  pageError,          \* a page call other than a lookup or a click has raised
  warned,             \* the soft failure was logged
  jret,               \* what joinTwitterSpace returned, or "threw"
  handed,             \* what index.js handed to setupAudioCapture
  lv,                 \* which file provides loginToTwitter
  username, password, \* the credentials are set in the environment
  email,              \* TWITTER_EMAIL is set in the environment
  typed,              \* what was typed into which field
  lpc,                \* position of loginToTwitter
  litem,              \* index in the selector list of the current step
  navigated,          \* the login page has been requested
  touched,            \* a field or button has been looked up
  submitted,          \* the password has been submitted
  failurePhrase,      \* the page after submission shows a failure phrase
  marker,             \* the page after submission shows a post-login marker
  lret,               \* what loginToTwitter returned, or "threw"
  looked,             \* the lookups of loginToTwitter so far: step, candidate, found
  knownSpaceIds,      \* monitorTwitterSpaces: the identifiers seen so far
  isRunning,          \* monitorTwitterSpaces: stop has not been called
  initial,            \* the initial discovery: "pending", "done", "failed"
  polls,              \* interval ticks so far
  pending,            \* discoveries of interval ticks that have not settled
  calls,              \* the callback invocations, in order
  discovered,         \* findMostPopularSpace: the discovery result
  popular,            \* findMostPopularSpace: "idle", "returned", "threw"
  mostPopular,        \* findMostPopularSpace: the room it returned
  cards,              \* discoverTwitterSpaces: the links of the cards on the page
  validSpaces,        \* discoverTwitterSpaces: the URLs of the rooms it returned
  discovery,          \* discoverTwitterSpaces: "idle", "returned", "threw"
  spaceUrl,           \* joinTwitterSpace: the URL it is given
  normalizedUrl,      \* joinTwitterSpace: the URL it goes to
  firstUrl,           \* the URL the first call went to
  urlCalls,           \* calls of the normalization so far
  spc,                \* setupAudioCapture: where the call is
  attempts,           \* its attempts counter
  mediaElementsFound, \* its mediaElementsFound flag
  setupLog,           \* what its loop logged: the checks and the interactions
  setupWarned,        \* whether it warned that it continues without media elements
  setupRet,           \* how the call ended: none, threw, object
  audioBuffer,        \* the audioBuffer of the capture object in the page
  arrivals,           \* the blocks that onaudioprocess has been given so far
  drains,             \* what the calls of getAudioData returned, in order
  sampleK,            \* the sample float32Array[i] is the float nearest to sampleK / scale
  converted,          \* whether the sample has been converted
  int16Sample,        \* the int16Sample computed from it
  gv,                 \* which joinTwitterSpace ends
  gateEnv,            \* which calls on the page fail at the end of joinTwitterSpace
  gateRuns,           \* the two runs that are compared: how each ended and what its checks returned
  websocketEndpoint,  \* setupWebSocketConnection: the endpoint it is given
  pagePc,             \* where the call is
  pageAttempt,        \* its reconnectAttempt counter
  pageOpened,         \* the WebSocket objects it has made in the page
  pageLog,            \* how its connection attempts went, in order
  pageRet,            \* what the call returned: none, true, false
  pageText,           \* joinTwitterSpace: the words of the room page that tell its state
  caller,             \* which main calls the discovery
  spacesFound,        \* a selector of the listing matched
  withUrl,            \* the extracted rooms that have a URL
  autoCapture,        \* options.autoCapture
  output,             \* options.output
  callerPc,           \* where that main is
  discoveryResult,    \* how the discovery ended: none, returned, threw
  said,               \* what main printed: none, found, error
  exitStatus,         \* running, ended, exit1
  capturing           \* a capture was started

vars == <<variant, endpoint, hasUrl, testMode, keepVm, pc, proc, handlers,
          vmInfo, browser, audioCapture, mainWs, socks, wsConnection,
          connectionRetries, ws, connected, reconnectAttempt, timers,
          scheduled, connP, hbLive, recording, produced, fileLen, lastChunk,
          lastSend, runs, delivered, hasRecorder, sentLog, pageBuf, evals,
          cleared, jv, jpc, isValidSpace, alreadyInSpace, audio, item, elem,
          attempt, searched, cands, buttonFound, clickAttempts, checks,
          lastClick, exhausted, pageError, warned, jret, handed,
          lv, username, password, email, typed, lpc, litem, navigated,
          touched, submitted, failurePhrase, marker, lret, looked, knownSpaceIds,
          isRunning, initial, polls, pending, calls,
          discovered, popular, mostPopular,
          cards, validSpaces, discovery,
          spaceUrl, normalizedUrl, firstUrl, urlCalls,
          spc, attempts, mediaElementsFound, setupLog, setupWarned, setupRet,
          audioBuffer, arrivals, drains,
          sampleK, converted, int16Sample,
          gv, gateEnv, gateRuns,
          websocketEndpoint, pagePc, pageAttempt, pageOpened, pageLog, pageRet,
          pageText,
          caller, spacesFound, withUrl, autoCapture, output, callerPc, discoveryResult, said, exitStatus, capturing>>

\* the page as joinTwitterSpace finds it, and the walk through its strategies
pageVars == <<jv, isValidSpace, alreadyInSpace, audio>>
walkVars == <<item, elem, attempt, searched, cands>>
clickVars == <<buttonFound, clickAttempts, checks, lastClick>>
joinVars == <<pageVars, jpc, walkVars, clickVars, exhausted, pageError, warned,
              jret, handed>>
\* the state of the functions that are modelled on their own
credVars == <<lv, username, password, email>>
loginVars == <<credVars, typed, lpc, litem, navigated, touched, submitted,
               failurePhrase, marker, lret, looked>>
monVars == <<knownSpaceIds, isRunning, initial, polls, pending, calls>>
popVars == <<discovered, popular, mostPopular>>
discVars == <<cards, validSpaces, discovery>>
urlVars == <<spaceUrl, normalizedUrl, firstUrl, urlCalls>>
capVars == <<spc, attempts, mediaElementsFound, setupLog, setupWarned, setupRet>>
bufVars == <<audioBuffer, arrivals, drains>>
convVars == <<sampleK, converted, int16Sample>>
gateVars == <<gv, gateEnv, gateRuns>>
pwsVars == <<websocketEndpoint, pagePc, pageAttempt, pageOpened, pageLog, pageRet>>
txtVars == <<pageText>>
callVars == <<caller, spacesFound, withUrl, autoCapture, output, callerPc, discoveryResult, said, exitStatus, capturing>>
sideVars == <<loginVars, monVars, popVars, discVars, urlVars, capVars, bufVars, convVars, gateVars, pwsVars, txtVars, callVars>>

optVars == <<variant, endpoint, hasUrl, testMode, keepVm, hasRecorder, joinVars,
             sideVars>>
resVars == <<vmInfo, browser, audioCapture>>
drainVars == <<pageBuf, evals, cleared>>
recVars == <<produced, fileLen, lastChunk, lastSend, sentLog, drainVars>>
\* the retry state of the two transports
retryVars == <<connectionRetries, connected, reconnectAttempt, timers, scheduled>>
\* the session, and what each function modelled on its own leaves alone
coreVars == <<variant, endpoint, hasUrl, testMode, keepVm, hasRecorder,
              resVars, recVars, pc, proc, handlers, mainWs, socks, wsConnection,
              ws, retryVars, connP, hbLive, recording, runs, delivered>>
sessionVars == <<coreVars, sideVars>>
loginRest == <<coreVars, joinVars, monVars, popVars, discVars, urlVars, capVars, bufVars, convVars, gateVars, pwsVars, txtVars, callVars>>
monRest == <<coreVars, joinVars, loginVars, popVars, discVars, urlVars, capVars, bufVars, convVars, gateVars, pwsVars, txtVars, callVars>>
popRest == <<coreVars, joinVars, loginVars, monVars, discVars, urlVars, capVars, bufVars, convVars, gateVars, pwsVars, txtVars, callVars>>
discRest == <<coreVars, joinVars, loginVars, monVars, popVars, urlVars, capVars, bufVars, convVars, gateVars, pwsVars, txtVars, callVars>>
urlRest == <<coreVars, joinVars, loginVars, monVars, popVars, discVars, capVars, bufVars, convVars, gateVars, pwsVars, txtVars, callVars>>
capRest == <<coreVars, joinVars, loginVars, monVars, popVars, discVars, urlVars, bufVars, convVars, gateVars, pwsVars, txtVars, callVars>>
bufRest == <<coreVars, joinVars, loginVars, monVars, popVars, discVars, urlVars, capVars, convVars, gateVars, pwsVars, txtVars, callVars>>
convRest == <<coreVars, joinVars, loginVars, monVars, popVars, discVars, urlVars, capVars, bufVars, gateVars, pwsVars, txtVars, callVars>>
gateRest == <<coreVars, joinVars, loginVars, monVars, popVars, discVars, urlVars, capVars, bufVars, convVars, pwsVars, txtVars, callVars>>
pwsRest == <<coreVars, joinVars, loginVars, monVars, popVars, discVars, urlVars, capVars, bufVars, convVars, gateVars, txtVars, callVars>>
txtRest == <<coreVars, joinVars, loginVars, monVars, popVars, discVars, urlVars, capVars, bufVars, convVars, gateVars, pwsVars, callVars>>
callRest == <<coreVars, joinVars, loginVars, monVars, popVars, discVars, urlVars, capVars, bufVars, convVars, gateVars, pwsVars, txtVars>>


\* ---- sockets (the ws library's WebSocket) --------------------------------
NewSocket ==
  [st |-> "connecting", opened |-> FALSE, meta |-> 0, audio |-> 0, hb |-> 0,
   fin |-> 0, early |-> FALSE, code |-> 0]

IsOpen(ss, s) == s # 0 /\ ss[s].st = "open"

\* ws.send throws on null and on a socket that is still connecting; on a
\* closing or closed socket it drops the message without throwing.
SendThrows(ss, s) == s = 0 \/ ss[s].st = "connecting"

\* the sockets after ws.send(message of kind k) on socket s
SendOn(ss, s, k) ==
  IF ~IsOpen(ss, s) THEN ss
  ELSE [ss EXCEPT ![s] =
          CASE k = "metadata" -> [@ EXCEPT !.meta = @ + 1]
            [] k = "audio" -> [@ EXCEPT !.audio = @ + 1,
                                        !.early = @ \/ ss[s].meta = 0]
            [] k = "heartbeat" -> [@ EXCEPT !.hb = @ + 1]
            [] OTHER -> [@ EXCEPT !.fin = @ + 1]]

\* ws.close(code) on an open socket; code 0 stands for no argument, and the
\* close event of a closing handshake that carried no status code reports
\* 1005. On a closing or closed socket it does nothing; a socket still
\* connecting aborts its handshake instead (AbortHandshake, AcAbortHandshake).
CloseFrame(ss, s, code) ==
  IF IsOpen(ss, s)
  THEN [ss EXCEPT ![s].st = "closing", ![s].code = IF code = 0 THEN 1005 ELSE code]
  ELSE ss

\* the close event of socket s, which carries code
Closed(ss, s, code) == [ss EXCEPT ![s].st = "closed", ![s].code = code]

\* ---- the retry state the handlers work on --------------------------------
\* T = [retries, attempt, connected, timers, scheduled, rejected]: the module
\* variables of websocket-client.js, the closure variables of audio-capture.js,
\* the pending and the set timeouts, and whether reject(error) was called.
TransportState ==
  [retries |-> connectionRetries, attempt |-> reconnectAttempt,
   connected |-> connected, timers |-> timers, scheduled |-> scheduled,
   rejected |-> FALSE]

StoreTransport(T) ==
  /\ connectionRetries' = T.retries
  /\ reconnectAttempt' = T.attempt
  /\ connected' = T.connected
  /\ timers' = T.timers
  /\ scheduled' = T.scheduled

Alive == proc = "running"

\* ---- websocket-client.js: connectToWebSocket ----------------------------
ScheduleReconnect(T) ==
  [T EXCEPT !.retries = @ + 1, !.timers = @ + 1, !.scheduled = @ + 1]

\* wsConnection.on('error')
OnError(T) ==
  IF T.retries < MAX_RETRIES THEN ScheduleReconnect(T)
  ELSE [T EXCEPT !.rejected = TRUE]

\* wsConnection.on('close')
OnClose(T, code) ==
  IF code # NORMAL_CLOSURE /\ T.retries < MAX_RETRIES THEN ScheduleReconnect(T)
  ELSE T

\* A handshake that fails or is aborted: the library emits 'error' and then
\* 'close' with 1006, with no other callback of the program in between.
AbortHandshake(T) == OnClose(OnError(T), 1006)

\* resolve(v) and reject(error) reach the promise main awaits through the
\* .then(resolve).catch(reject) chain of every nested call; main goes on at
\* once: to startRecording, or to its catch block.
Settle(T, resolved, v) ==
  IF connP # "pending" THEN UNCHANGED <<connP, mainWs, pc>>
  ELSE IF resolved THEN connP' = "resolved" /\ mainWs' = v /\ pc' = "record"
  ELSE IF T.rejected THEN connP' = "rejected" /\ pc' = "catch" /\ UNCHANGED mainWs
  ELSE UNCHANGED <<connP, mainWs, pc>>

\* the body of connectToWebSocket up to the handlers' registration
ConnectCall ==
  /\ connectionRetries' = 0
  /\ socks' = Append(socks, NewSocket)
  /\ wsConnection' = Len(socks) + 1
  /\ hbLive' = hbLive \cup {Len(socks) + 1}

\* main: wsConnection = await connectToWebSocket(websocketEndpoint)
MainConnect ==
  /\ Alive /\ variant \in ClientVariants /\ pc = "connect"
  /\ IF endpoint = "ws"
     THEN /\ ConnectCall
          /\ connP' = "pending" /\ pc' = "awaitConnect"
     ELSE /\ connectionRetries' = IF endpoint = "bad" THEN 0 ELSE connectionRetries
          /\ connP' = "rejected" /\ pc' = "catch"
          /\ UNCHANGED <<socks, wsConnection, hbLive>>
  /\ UNCHANGED <<optVars, resVars, recVars, proc, handlers, mainWs, ws,
                 connected, reconnectAttempt, timers, scheduled, recording,
                 runs, delivered>>

\* a reconnect timeout fires: connectToWebSocket(endpoint).then(resolve).catch(reject);
\* limit caps the sockets of a run
TimerFire(limit) ==
  /\ Alive /\ variant \in ClientVariants /\ timers > 0
  /\ Len(socks) < limit
  /\ timers' = timers - 1
  /\ ConnectCall
  /\ UNCHANGED <<optVars, resVars, recVars, pc, proc, handlers, mainWs, ws,
                 connected, reconnectAttempt, scheduled, connP, recording,
                 runs, delivered>>

\* 'open' on socket s: the metadata goes to the module's wsConnection; an
\* exception of that send leaves the handler uncaught and ends the process
SockOpen(s) ==
  /\ Alive /\ variant \in ClientVariants /\ socks[s].st = "connecting"
  /\ LET ss == [socks EXCEPT ![s].st = "open", ![s].opened = TRUE] IN
       IF SendThrows(ss, wsConnection)
       THEN /\ socks' = ss /\ proc' = "crashed"
            /\ UNCHANGED <<connP, mainWs, pc>>
       ELSE /\ socks' = SendOn(ss, wsConnection, "metadata")
            /\ Settle(TransportState, TRUE, wsConnection)
            /\ UNCHANGED proc
  /\ UNCHANGED <<optVars, resVars, recVars, handlers, wsConnection, ws,
                 retryVars, hbLive, recording, runs, delivered>>

\* the handshake of socket s fails: 'error', then 'close' with 1006
ConnectFail(s) ==
  /\ Alive /\ variant \in ClientVariants /\ socks[s].st = "connecting"
  /\ socks' = Closed(socks, s, 1006)
  /\ LET T == AbortHandshake(TransportState) IN
       StoreTransport(T) /\ Settle(T, FALSE, 0)
  /\ UNCHANGED <<optVars, resVars, recVars, proc, handlers, wsConnection, ws,
                 hbLive, recording, runs, delivered>>

\* 'error' on the open socket s; its 'close' follows with 1006
SockError(s) ==
  /\ Alive /\ variant \in ClientVariants /\ socks[s].st = "open"
  /\ socks' = [socks EXCEPT ![s].st = "closing", ![s].code = 1006]
  /\ LET T == OnError(TransportState) IN
       StoreTransport(T) /\ Settle(T, FALSE, 0)
  /\ UNCHANGED <<optVars, resVars, recVars, proc, handlers, wsConnection, ws,
                 hbLive, recording, runs, delivered>>

\* 'close' on socket s: the peer or the network ends an open connection, or a
\* closing one finishes
SockClose(s, code) ==
  /\ Alive /\ variant \in ClientVariants
  /\ \/ socks[s].st = "open" /\ code \in RemoteCodes
     \/ socks[s].st = "closing" /\ code = socks[s].code
  /\ socks' = Closed(socks, s, code)
  /\ StoreTransport(OnClose(TransportState, code))
  /\ UNCHANGED <<optVars, resVars, recVars, pc, proc, handlers, mainWs,
                 wsConnection, ws, connP, hbLive, recording, runs, delivered>>

\* a tick of the heartbeat interval set by the connectToWebSocket call that
\* created socket c: it looks at the module's wsConnection, sends on it when it
\* is open, and clears itself otherwise. wsConnection.readyState is read with
\* no test for null: on a null wsConnection the callback raises a TypeError
\* before it reaches clearInterval, and nothing catches it.
Heartbeat(c) ==
  /\ Alive /\ variant \in ClientVariants /\ c \in hbLive
  /\ IF wsConnection = 0
     THEN /\ proc' = "crashed"
          /\ UNCHANGED <<socks, hbLive>>
     ELSE IF IsOpen(socks, wsConnection)
     THEN /\ socks[wsConnection].hb < MaxBeats
          /\ socks' = SendOn(socks, wsConnection, "heartbeat")
          /\ UNCHANGED <<hbLive, proc>>
     ELSE /\ hbLive' = hbLive \ {c}
          /\ UNCHANGED <<socks, proc>>
  /\ UNCHANGED <<optVars, resVars, recVars, pc, handlers, mainWs,
                 wsConnection, ws, retryVars, connP, recording, runs, delivered>>

\* closeWebSocketConnection(), which the module exports: on an open
\* wsConnection it sends the 'end' message, closes with 1000 and sets the
\* module's wsConnection to null; on any other it does nothing.
CloseWebSocketConnection ==
  /\ Alive /\ variant \in ClientVariants /\ IsOpen(socks, wsConnection)
  /\ socks' = CloseFrame(SendOn(socks, wsConnection, "end"), wsConnection,
                         NORMAL_CLOSURE)
  /\ wsConnection' = 0
  /\ UNCHANGED <<optVars, resVars, recVars, pc, proc, handlers, mainWs, ws,
                 retryVars, connP, hbLive, recording, runs, delivered>>

\* ---- websocket-client.js: sendAudioChunk ---------------------------------
\* sendAudioChunk without its readyState test: the library drops a message
\* sent on a closing or closed socket without raising, so it would return true
SendAudioChunkUnguarded(ss, sock, chunk) ==
  IF chunk = "bad" \/ SendThrows(ss, sock)
  THEN [ok |-> FALSE, threw |-> FALSE, socks |-> ss]
  ELSE [ok |-> TRUE, threw |-> FALSE, socks |-> SendOn(ss, sock, "audio")]

\* chunk "bad" is a value whose encoding raises inside the try block.
\* The result: [ok: the value returned, threw: an exception left the function,
\* socks: the sockets afterwards].
SendAudioChunk(ss, sock, chunk) ==
  IF sock = 0 \/ ss[sock].st # "open"
  THEN [ok |-> FALSE, threw |-> FALSE, socks |-> ss]
  ELSE IF chunk = "bad" \/ SendThrows(ss, sock)
  THEN [ok |-> FALSE, threw |-> FALSE, socks |-> ss]
  ELSE [ok |-> TRUE, threw |-> FALSE, socks |-> SendOn(ss, sock, "audio")]

\* ---- audio-capture.js: connectToWebSocket --------------------------------
\* ws.on('error'): reject(error) unless connected
AcOnError(T) == IF ~T.connected THEN [T EXCEPT !.rejected = TRUE] ELSE T

\* a close handler that reconnects whatever the counter says
AcOnCloseAlways(T, code) ==
  IF code # NORMAL_CLOSURE
  THEN [T EXCEPT !.connected = FALSE, !.attempt = @ + 1, !.timers = @ + 1,
                 !.scheduled = @ + 1]
  ELSE [T EXCEPT !.connected = FALSE]

\* ws.on('close')
AcOnClose(T, code) ==
  IF code # NORMAL_CLOSURE /\ T.attempt < maxReconnectAttempts
  THEN [T EXCEPT !.connected = FALSE, !.attempt = @ + 1, !.timers = @ + 1,
                 !.scheduled = @ + 1]
  ELSE [T EXCEPT !.connected = FALSE]

AcAbortHandshake(T) == AcOnClose(AcOnError(T), 1006)

\* Only the promise of the first connectWebSocket() is awaited, by
\* connectToWebSocket and through it by main, which goes on to
\* startRecording with or without a connection.
AcSettle(s, T, resolved, v) ==
  IF s # 1 \/ connP # "pending" THEN UNCHANGED <<connP, mainWs, pc>>
  ELSE IF resolved THEN connP' = "resolved" /\ mainWs' = v /\ pc' = "record"
  ELSE IF T.rejected THEN connP' = "rejected" /\ pc' = "record" /\ UNCHANGED mainWs
  ELSE UNCHANGED <<connP, mainWs, pc>>

\* ws.terminate() on the closure's socket, when there is one
Terminate(ss, s) ==
  IF s # 0 /\ ss[s].st \in {"open", "closing"}
  THEN [ss EXCEPT ![s].st = "closing", ![s].code = 1006]
  ELSE IF s # 0 /\ ss[s].st = "connecting" THEN Closed(ss, s, 1006)
  ELSE ss

\* the body of connectWebSocket up to the handlers' registration, from the
\* retry state T
AcConnectCall(T) ==
  /\ socks' = Append(Terminate(socks, ws), NewSocket)
  /\ ws' = Len(socks) + 1
  /\ hbLive' = hbLive \cup {Len(socks) + 1}
  /\ StoreTransport(IF ws # 0 /\ socks[ws].st = "connecting"
                    THEN AcAbortHandshake(T) ELSE T)

\* main: if (options.websocket) wsConnection = await connectToWebSocket(...),
\* inside its own try and catch
SecondConnect ==
  /\ Alive /\ variant = "second" /\ pc = "connect"
  /\ IF endpoint = "ws"
     THEN /\ AcConnectCall(TransportState)
          /\ connP' = "pending" /\ pc' = "awaitConnect"
     ELSE /\ connP' = IF endpoint = "bad" THEN "rejected" ELSE connP
          /\ pc' = "record"
          /\ UNCHANGED <<socks, ws, hbLive, retryVars>>
  /\ UNCHANGED <<optVars, resVars, recVars, proc, handlers, mainWs,
                 wsConnection, recording, runs, delivered>>

\* a reconnect timeout fires: connectWebSocket().then(newWs => ws = newWs)
AcTimerFire(limit) ==
  /\ Alive /\ variant = "second" /\ timers > 0
  /\ Len(socks) < limit
  /\ AcConnectCall([TransportState EXCEPT !.timers = @ - 1])
  /\ UNCHANGED <<optVars, resVars, recVars, pc, proc, handlers, mainWs,
                 wsConnection, connP, recording, runs, delivered>>

\* 'open' on socket s: the metadata goes to the closure's ws, inside a try
AcSockOpen(s) ==
  /\ Alive /\ variant = "second" /\ socks[s].st = "connecting"
  /\ LET ss == [socks EXCEPT ![s].st = "open", ![s].opened = TRUE] IN
       socks' = IF SendThrows(ss, ws) THEN ss ELSE SendOn(ss, ws, "metadata")
  /\ connected' = TRUE
  /\ AcSettle(s, TransportState, TRUE, ws)
  /\ UNCHANGED <<optVars, resVars, recVars, proc, handlers, wsConnection, ws,
                 connectionRetries, reconnectAttempt, timers, scheduled,
                 hbLive, recording, runs, delivered>>

\* the handshake of socket s fails: 'error', then 'close' with 1006; the
\* second close handler clears the heartbeat interval
AcConnectFail(s) ==
  /\ Alive /\ variant = "second" /\ socks[s].st = "connecting"
  /\ socks' = Closed(socks, s, 1006)
  /\ hbLive' = hbLive \ {s}
  /\ LET T == AcAbortHandshake(TransportState) IN
       StoreTransport(T) /\ AcSettle(s, T, FALSE, 0)
  /\ UNCHANGED <<optVars, resVars, recVars, proc, handlers, wsConnection, ws,
                 recording, runs, delivered>>

\* 'error' on the open socket s; its 'close' follows with 1006
AcSockError(s) ==
  /\ Alive /\ variant = "second" /\ socks[s].st = "open"
  /\ socks' = [socks EXCEPT ![s].st = "closing", ![s].code = 1006]
  /\ LET T == AcOnError(TransportState) IN
       StoreTransport(T) /\ AcSettle(s, T, FALSE, 0)
  /\ UNCHANGED <<optVars, resVars, recVars, proc, handlers, wsConnection, ws,
                 hbLive, recording, runs, delivered>>

\* 'close' on socket s
AcSockClose(s, code) ==
  /\ Alive /\ variant = "second"
  /\ \/ socks[s].st = "open" /\ code \in RemoteCodes
     \/ socks[s].st = "closing" /\ code = socks[s].code
  /\ socks' = Closed(socks, s, code)
  /\ hbLive' = hbLive \ {s}
  /\ StoreTransport(AcOnClose(TransportState, code))
  /\ UNCHANGED <<optVars, resVars, recVars, pc, proc, handlers, mainWs,
                 wsConnection, ws, connP, recording, runs, delivered>>

\* a tick of the heartbeat interval set by the connectWebSocket call that
\* created socket c: it sends on the closure's ws when that is open, and
\* clears itself when it is not and connected is false
AcHeartbeat(c) ==
  /\ Alive /\ variant = "second" /\ c \in hbLive
  /\ IF IsOpen(socks, ws)
     THEN /\ socks[ws].hb < MaxBeats
          /\ socks' = SendOn(socks, ws, "heartbeat")
          /\ UNCHANGED hbLive
     ELSE /\ ~connected
          /\ hbLive' = hbLive \ {c}
          /\ UNCHANGED socks
  /\ UNCHANGED <<optVars, resVars, recVars, pc, proc, handlers, mainWs,
                 wsConnection, ws, retryVars, connP, recording, runs, delivered>>

\* the sendAudioData closure of the object connectToWebSocket returns
SendAudioData(ss, sock, chunk) ==
  IF sock # 0 /\ ss[sock].st = "open"
  THEN IF chunk = "bad" \/ SendThrows(ss, sock)
       THEN [ok |-> FALSE, threw |-> FALSE, socks |-> ss]
       ELSE [ok |-> TRUE, threw |-> FALSE, socks |-> SendOn(ss, sock, "audio")]
  ELSE [ok |-> FALSE, threw |-> FALSE, socks |-> ss]

\* ---- the recorder stream's 'data' handler ---------------------------------
\* index, orig (audio-capture.js, recorder variant): fileStream.write(chunk),
\* then onData(chunk), main's callback, which sends the chunk on the socket
\* main holds. second: wsConnection.sendAudioData(chunk) when main holds a
\* connection object; the closure sends on its own ws.
ChunkSend(chunk) ==
  IF variant \in ClientVariants THEN SendAudioChunk(socks, mainWs, chunk)
  ELSE IF mainWs # 0 THEN SendAudioData(socks, ws, chunk)
  ELSE [ok |-> FALSE, threw |-> FALSE, socks |-> socks]

Chunk(chunk) ==
  /\ Alive /\ recording /\ hasRecorder /\ produced < MaxChunks
  /\ produced' = produced + 1
  /\ fileLen' = IF variant \in ClientVariants THEN fileLen + 1 ELSE fileLen
  /\ lastChunk' = chunk
  /\ LET r == ChunkSend(chunk) IN
       /\ socks' = r.socks
       /\ lastSend' = IF r.threw THEN "threw" ELSE IF r.ok THEN "true" ELSE "false"
       /\ sentLog' = IF r.ok THEN Append(sentLog, [id |-> produced + 1, over |-> FALSE])
                     ELSE sentLog
  /\ UNCHANGED <<drainVars, optVars, resVars, pc, proc, handlers, mainWs, wsConnection,
                 ws, retryVars, connP, hbLive, recording, runs, delivered>>

\* ---- audio-capture.js: the browser-based recording of startRecording -------
\* taken when audioCapture has no recorder: an interval drains the in-page
\* buffer once a second and sends what it got
IntervalOn == recording /\ ~hasRecorder /\ ~cleared

\* onaudioprocess in the page: the buffer gets the new chunk and drops its
\* oldest entry beyond the cap
PageAudio ==
  /\ Alive /\ recording /\ ~hasRecorder /\ produced < MaxChunks
  /\ produced' = produced + 1
  /\ pageBuf' = LET b == Append(pageBuf, produced + 1)
                IN IF Len(b) > audioBufferCap THEN Tail(b) ELSE b
  /\ UNCHANGED <<optVars, resVars, fileLen, lastChunk, lastSend, sentLog,
                 evals, cleared, pc, proc, handlers, mainWs, socks,
                 wsConnection, ws, retryVars, connP, hbLive, recording, runs,
                 delivered>>

\* a tick of dataCollectionInterval up to its await: page.evaluate runs
\* getAudioData in the page, which hands over the buffer and empties it, or
\* the call fails; over: an earlier call has not settled yet
DrainTick(fails) ==
  /\ Alive /\ IntervalOn /\ Len(evals) < MaxEvals
  /\ evals' = Append(evals, [ok |-> ~fails,
                             data |-> IF fails THEN <<>> ELSE pageBuf,
                             over |-> evals # <<>>])
  /\ pageBuf' = IF fails THEN pageBuf ELSE <<>>
  /\ UNCHANGED <<optVars, resVars, produced, fileLen, lastChunk, lastSend,
                 sentLog, cleared, pc, proc, handlers, mainWs, socks,
                 wsConnection, ws, retryVars, connP, hbLive, recording, runs,
                 delivered>>

\* the answers of the page overtaking one another: the latest call settles first
LastSettled(q) == Len(q)

\* the evaluate call whose promise settles next: the page answers the calls
\* in the order they were made
FirstSettled(q) == 1

\* the chunks of a drained buffer as entries of sentLog
RECURSIVE Entries(_, _)
Entries(data, over) ==
  IF data = <<>> THEN <<>>
  ELSE <<[id |-> Head(data), over |-> over]>> \o Entries(Tail(data), over)

\* a tick of dataCollectionInterval after its await: the conversion and
\* wsConnection.sendAudioData(s16leBuffer); the catch block clears the interval
DrainDone ==
  /\ Alive /\ evals # <<>>
  /\ LET k == FirstSettled(evals)
         e == evals[k]
         r == SendAudioData(socks, ws, "ok")
     IN /\ evals' = SubSeq(evals, 1, k - 1) \o SubSeq(evals, k + 1, Len(evals))
        /\ cleared' = (cleared \/ ~e.ok)
        /\ IF e.ok /\ e.data # <<>> /\ mainWs # 0
           THEN /\ socks' = r.socks
                /\ sentLog' = IF r.ok THEN sentLog \o Entries(e.data, e.over)
                              ELSE sentLog
           ELSE UNCHANGED <<socks, sentLog>>
  /\ UNCHANGED <<optVars, resVars, produced, fileLen, lastChunk, lastSend,
                 pageBuf, pc, proc, handlers, mainWs, wsConnection, ws,
                 retryVars, connP, hbLive, recording, runs, delivered>>

\* ---- main ------------------------------------------------------------------
\* parameter validation, up to the first await
MainStart ==
  /\ Alive /\ pc = "start"
  /\ pc' = IF ~hasUrl THEN "catch"
           ELSE IF ~testMode THEN "provision" ELSE "launch"
  /\ UNCHANGED <<optVars, resVars, recVars, proc, handlers, mainWs, socks,
                 wsConnection, ws, retryVars, connP, hbLive, recording, runs,
                 delivered>>

StepAfter(p) ==
  CASE p = "provision" -> "launch"
    [] p = "launch" -> "login"
    [] p = "login" -> "join"
    [] p = "join" -> "setup"
    [] p = "setup" -> "connect"
    [] p = "record" -> "running"

\* the signal handlers main registers after startRecording
Registered == IF variant = "orig" THEN {"SIGINT"} ELSE {"SIGINT", "SIGTERM"}

\* an awaited step of main settles: provisionVM, launchBrowser, loginToTwitter,
\* joinTwitterSpace, setupAudioCapture, startRecording
MainStep(ok) ==
  /\ Alive /\ pc \in {"provision", "launch", "login", "join", "setup", "record"}
  /\ pc' = IF ok THEN StepAfter(pc) ELSE "catch"
  /\ vmInfo' = (vmInfo \/ (ok /\ pc = "provision"))
  /\ browser' = (browser \/ (ok /\ pc = "launch"))
  /\ audioCapture' = (audioCapture \/ (ok /\ pc = "setup"))
  /\ recording' = (recording \/ (ok /\ pc = "record"))
  /\ handlers' = IF ok /\ pc = "record" THEN Registered ELSE handlers
  /\ UNCHANGED <<optVars, recVars, proc, mainWs, socks, wsConnection, ws,
                 retryVars, connP, hbLive, runs, delivered>>

\* ---- teardown: cleanup (index, orig) and shutdown (second) -----------------
\* a cleanup that closes the transport before it stops the recording
CleanupStepsTransportFirst ==
  <<"wsClose", "stopRecording", "browserClose", "terminateVM">>

\* the steps of cleanup's try block, in program order
CleanupSteps == <<"stopRecording", "wsClose", "browserClose", "terminateVM">>

\* the steps of shutdown's try block: stopRecording(audioCapture, wsConnection)
\* stops the recorder, awaits the in-page stop and closes the connection
ShutdownSteps == <<"stopRecording", "pageStop", "wsClose", "browserClose">>

StepsOf(v) == IF v \in ClientVariants THEN CleanupSteps ELSE ShutdownSteps

\* the steps whose promise settles in a later turn of the event loop
AwaitedSteps == {"pageStop", "browserClose", "terminateVM"}

\* the if that guards each step
Applies(step) ==
  CASE step = "stopRecording" -> audioCapture
    [] step = "pageStop" -> audioCapture
    [] step = "wsClose" -> mainWs # 0
    [] step = "browserClose" -> browser
    [] step = "terminateVM" ->
         IF variant = "index" THEN vmInfo /\ ~keepVm /\ ~testMode
         ELSE vmInfo /\ ~keepVm

\* index, orig: wsConnection.close(), on the socket main holds, with no code
\* and no end message. second: the returned object's close(), which calls
\* ws.close(1000) on the closure's socket.
CleanupClose(S) ==
  LET sock == IF variant \in ClientVariants THEN mainWs ELSE ws
      code == IF variant \in ClientVariants THEN 0 ELSE NORMAL_CLOSURE
  IN IF sock # 0 /\ S.socks[sock].st = "connecting"
     THEN [S EXCEPT !.socks = Closed(@, sock, 1006),
                    !.T = IF variant \in ClientVariants THEN AbortHandshake(@)
                          ELSE AcAbortHandshake(@)]
     ELSE [S EXCEPT !.socks = CloseFrame(@, sock, code)]

Logged(S, step, what) == [S EXCEPT !.log = Append(@, <<step, what>>)]

\* The teardown from step k on, up to the next await that yields or to the
\* end; stopThrows: stopping the recorder raises. The single try block ends
\* at the first exception.
RECURSIVE Walk(_, _, _)
Walk(k, S, stopThrows) ==
  IF k > Len(StepsOf(variant)) THEN [S EXCEPT !.status = "finished", !.k = k]
  ELSE LET step == StepsOf(variant)[k] IN
    IF ~Applies(step) THEN Walk(k + 1, S, stopThrows)
    ELSE IF step \in AwaitedSteps
    THEN [Logged(S, step, "start") EXCEPT !.status = "await", !.k = k]
    ELSE IF step = "stopRecording"
    THEN IF stopThrows
         THEN [Logged(Logged(S, step, "start"), step, "fail")
                 EXCEPT !.status = "failed", !.k = k]
         ELSE Walk(k + 1,
                   [Logged(Logged(S, step, "start"), step, "end")
                      EXCEPT !.recording = FALSE],
                   stopThrows)
    ELSE Walk(k + 1,
              Logged(CleanupClose(Logged(S, step, "start")), step, "end"),
              stopThrows)

\* The state after a stretch of the teardown of run r. At its end the caller
\* exits at once: process.exit(code) after cleanup, which swallows the
\* exception; shutdown exits with 1 from its catch block.
StoreCleanup(S, r, code) ==
  /\ socks' = S.socks
  /\ StoreTransport(S.T)
  /\ recording' = S.recording
  /\ runs' = [i \in 1..(IF r > Len(runs) THEN r ELSE Len(runs)) |->
                IF i = r THEN [k |-> S.k, code |-> code, log |-> S.log,
                               status |-> S.status]
                ELSE runs[i]]
  /\ proc' = CASE S.status = "await" -> proc
               [] S.status = "failed" /\ variant = "second" -> "exit1"
               [] OTHER -> IF code = 0 THEN "exit0" ELSE "exit1"

\* a call of cleanup() or shutdown(), by a signal handler (code 0) or by
\* main's catch block (code 1)
CleanupEnter(code, stopThrows) ==
  StoreCleanup(Walk(1, [socks |-> socks, T |-> TransportState,
                        recording |-> recording, log |-> <<>>,
                        status |-> "await", k |-> 0], stopThrows),
               Len(runs) + 1, code)

\* main's catch block: the screenshot attempt, then the teardown and exit(1)
MainCatch(stopThrows) ==
  /\ Alive /\ pc = "catch"
  /\ pc' = "cleanup"
  /\ CleanupEnter(1, stopThrows)
  /\ UNCHANGED <<optVars, resVars, recVars, handlers,
                 mainWs, wsConnection, ws, connP, hbLive, delivered>>

\* SIGINT or SIGTERM arrives; without a registered handler it ends the process
Signal(sig, stopThrows) ==
  /\ Alive /\ sig \notin delivered
  /\ delivered' = delivered \cup {sig}
  /\ IF sig \in handlers
     THEN CleanupEnter(0, stopThrows)
     ELSE /\ proc' = "killed"
          /\ UNCHANGED <<socks, retryVars, recording, runs>>
  /\ UNCHANGED <<optVars, resVars, recVars, pc, handlers,
                 mainWs, wsConnection, ws, connP, hbLive>>

\* the awaited step of run r settles: the in-page stop, browser.close() or
\* terminateVM(); a failure of the in-page stop is caught where it is awaited
CleanupResume(r, ok) ==
  /\ Alive /\ r \in 1..Len(runs) /\ runs[r].status = "await"
  /\ LET run == runs[r]
         step == StepsOf(variant)[run.k]
         S == [socks |-> socks, T |-> TransportState, recording |-> recording,
               log |-> run.log, status |-> "await", k |-> run.k]
     IN IF ok \/ step = "pageStop"
        THEN StoreCleanup(Walk(run.k + 1,
                               Logged(S, step, IF ok THEN "end" ELSE "fail"),
                               FALSE),
                          r, run.code)
        ELSE StoreCleanup([Logged(S, step, "fail") EXCEPT !.status = "failed"],
                          r, run.code)
  /\ UNCHANGED <<optVars, resVars, recVars, pc, handlers,
                 mainWs, wsConnection, ws, connP, hbLive, delivered>>

\* ---- joinTwitterSpace -----------------------------------------------------
\* The repository holds four forms of the browser-automation module. Three take
\* the object loginToTwitter returns: the one that escalates through five
\* approaches ("part_006"), the one that verifies by the leave button
\* ("part_007") and the one that verifies by the page text ("part_008"). The
\* fourth, src/browser/browser-automation.js, takes and returns the page.
JoinVariants == {"part_006", "part_007", "part_008", "browser-automation"}
Escalating == "part_006"
SelectorApproaches == {"approach1", "approach2"}
ListApproaches == {"approach3", "approach4"}


Min(a, b) == IF a < b THEN a ELSE b

\* what an in-page search can return: the areas of the elements in document
\* order (only visible elements of a positive area pass the filter)
Doms == UNION {[1..n -> 1..MaxArea] : n \in 0..MaxCands}

\* .sort((a, b) => b.area - a.area): largest first
RECURSIVE InsertBySize(_, _)
InsertBySize(a, s) ==
  IF s = <<>> THEN <<a>>
  ELSE IF a >= Head(s) THEN <<a>> \o s
  ELSE <<Head(s)>> \o InsertBySize(a, Tail(s))

RECURSIVE SortBySize(_)
SortBySize(s) ==
  IF s = <<>> THEN <<>> ELSE InsertBySize(Head(s), SortBySize(Tail(s)))

\* goto, the wait, and the checks that come before any click
JoinStart(loads) ==
  /\ jpc = "idle"
  /\ item' = 1
  /\ IF ~loads
     THEN jpc' = "done" /\ jret' = "threw" /\ pageError' = TRUE
     ELSE /\ pageError' = pageError
          /\ CASE jv = "browser-automation" ->
                    jpc' = "selectors" /\ jret' = jret
               [] ~isValidSpace ->
                    jpc' = "done" /\ jret' = "threw"
               [] jv = "part_007" /\ alreadyInSpace ->
                    jpc' = "done" /\ jret' = "undefined"
               [] jv = "part_008" /\ alreadyInSpace ->
                    jpc' = "done" /\ jret' = "object"
               [] OTHER ->
                    /\ jpc' = IF jv = Escalating THEN "approach1" ELSE "selectors"
                    /\ jret' = jret
  /\ UNCHANGED <<sessionVars, pageVars, elem, attempt, searched, cands,
                 clickVars, exhausted, warned, handed>>

\* one click attempt: the n-th of its list, on an element of the given area.
\* The audio check follows the click inside the same try block.
ClickAttempt(n, area, throws, appears) ==
  /\ clickAttempts' = clickAttempts + 1
  /\ lastClick' = [ap |-> jpc, item |-> item, n |-> n, area |-> area]
  /\ audio' = (audio \/ (~throws /\ appears))
  /\ checks' = IF throws THEN checks ELSE checks + 1
  /\ buttonFound' = (~throws /\ audio')

\* the selector loop moves on: the next selector, or the next approach
NextSelector ==
  /\ elem' = FALSE /\ attempt' = 0 /\ searched' = FALSE /\ cands' = <<>>
  /\ IF item < MaxSelectors
     THEN item' = item + 1 /\ jpc' = jpc
     ELSE item' = 1 /\ jpc' = IF jpc = "approach1" THEN "approach2" ELSE "approach3"

\* approach 1: waitForSelector(selector, visible) raises when nothing shows;
\* approach 2: page.$(selector) returns null
Resolve(found) ==
  /\ jv = Escalating /\ jpc \in SelectorApproaches /\ ~elem
  /\ IF found
     THEN elem' = TRUE /\ attempt' = 0 /\ UNCHANGED <<jpc, item, searched, cands>>
     ELSE NextSelector
  /\ UNCHANGED <<sessionVars, pageVars, clickVars, exhausted, pageError,
                 warned, jret, handed>>

\* approaches 1 and 2: attempt 0 is the plain click, 1 the forced click, 2 the
\* click dispatched by script
SelectorClick(throws, appears) ==
  /\ jv = Escalating /\ jpc \in SelectorApproaches /\ elem
  /\ ClickAttempt(attempt, 0, throws, appears)
  /\ IF buttonFound'
     THEN jpc' = "settle" /\ UNCHANGED walkVars
     ELSE IF attempt + 1 < maxClickAttempts
     THEN attempt' = attempt + 1 /\ UNCHANGED <<jpc, item, elem, searched, cands>>
     ELSE NextSelector
  /\ UNCHANGED <<sessionVars, jv, isValidSpace, alreadyInSpace, exhausted,
                 pageError, warned, jret, handed>>

\* the list loop moves on when the elements still to click are rest, the next
\* of them being the n-th of its list
Advance(rest, n) ==
  /\ elem' = FALSE
  /\ IF rest # <<>>
     THEN /\ cands' = rest /\ searched' = TRUE /\ attempt' = n
          /\ UNCHANGED <<jpc, item>>
     ELSE /\ cands' = <<>> /\ searched' = FALSE /\ attempt' = 0
          /\ IF jpc = "approach3" /\ item < MaxTexts
             THEN item' = item + 1 /\ jpc' = jpc
             ELSE /\ item' = 1
                  /\ jpc' = IF jpc = "approach3" THEN "approach4" ELSE "approach5"

\* approach 3: the elements that contain the text, sorted by size
TextSearch(dom, throws) ==
  /\ jv = Escalating /\ jpc = "approach3" /\ ~searched
  /\ IF throws
     THEN /\ jpc' = "approach4" /\ item' = 1
          /\ UNCHANGED <<elem, attempt, searched, cands>>
     ELSE Advance(SortBySize(dom), 0)
  /\ UNCHANGED <<sessionVars, pageVars, clickVars, exhausted, pageError,
                 warned, jret, handed>>

\* approach 4: the visible buttons sorted by area, the first five of them
LargestSearch(dom, throws) ==
  /\ jv = Escalating /\ jpc = "approach4" /\ ~searched
  /\ IF throws
     THEN /\ jpc' = "approach5" /\ item' = 1
          /\ UNCHANGED <<elem, attempt, searched, cands>>
     ELSE LET visibleButtons == SortBySize(dom)
          IN  Advance(SubSeq(visibleButtons, 1,
                             Min(topButtons, Len(visibleButtons))), 0)
  /\ UNCHANGED <<sessionVars, pageVars, clickVars, exhausted, pageError,
                 warned, jret, handed>>

\* approaches 3 and 4: the click on the next element of the sorted list
CandidateClick(throws, appears) ==
  /\ jv = Escalating /\ jpc \in ListApproaches /\ searched /\ cands # <<>>
  /\ ClickAttempt(attempt, Head(cands), throws, appears)
  /\ IF buttonFound'
     THEN jpc' = "settle" /\ UNCHANGED walkVars
     ELSE Advance(Tail(cands), attempt + 1)
  /\ UNCHANGED <<sessionVars, jv, isValidSpace, alreadyInSpace, exhausted,
                 pageError, warned, jret, handed>>

\* approach 5: the viewport size is read first
Viewport(throws) ==
  /\ jv = Escalating /\ jpc = "approach5" /\ ~searched
  /\ IF throws
     THEN jpc' = "settle" /\ UNCHANGED searched
     ELSE searched' = TRUE /\ UNCHANGED jpc
  /\ UNCHANGED <<sessionVars, pageVars, item, elem, attempt, cands, clickVars,
                 exhausted, pageError, warned, jret, handed>>

\* approach 5: the click at the next of commonPositions
PositionClick(throws, appears) ==
  /\ jv = Escalating /\ jpc = "approach5" /\ searched
  /\ ClickAttempt(0, 0, throws, appears)
  /\ IF buttonFound' \/ item = numPositions
     THEN jpc' = "settle" /\ UNCHANGED walkVars
     ELSE item' = item + 1 /\ UNCHANGED <<jpc, elem, attempt, searched, cands>>
  /\ UNCHANGED <<sessionVars, jv, isValidSpace, alreadyInSpace, exhausted,
                 pageError, warned, jret, handed>>

\* after the approaches: the warning when no click was seen to succeed, the
\* wait, the unmuting and the advisory checkIfAudioIsPlaying, the screenshot
\* and the return
JoinFinish(throws) ==
  /\ jv = Escalating /\ jpc = "settle"
  /\ warned' = ~buttonFound
  /\ exhausted' = ~buttonFound
  /\ pageError' = throws
  /\ jret' = IF throws THEN "threw" ELSE "object"
  /\ jpc' = "done"
  /\ UNCHANGED <<sessionVars, pageVars, walkVars, clickVars, handed>>

\* the other three forms: the loop over the selector list. part_007 clicks
\* inside the loop and goes on to the next selector when the click raises;
\* part_008 and browser-automation.js only look the element up.
Select(found, throws) ==
  /\ jv # Escalating /\ jpc = "selectors"
  /\ throws => (found /\ jv = "part_007")
  /\ IF found /\ jv = "part_007"
     THEN /\ clickAttempts' = clickAttempts + 1
          /\ lastClick' = [ap |-> jpc, item |-> item, n |-> 0, area |-> 0]
     ELSE UNCHANGED <<clickAttempts, lastClick>>
  /\ IF found /\ ~throws
     THEN /\ jpc' = IF jv = "part_007" THEN "verify" ELSE "click"
          /\ UNCHANGED <<item, exhausted, jret>>
     ELSE IF item < MaxSelectors
     THEN item' = item + 1 /\ UNCHANGED <<jpc, exhausted, jret>>
     ELSE IF jv = "browser-automation"
     THEN /\ jpc' = "done" /\ jret' = "threw" /\ exhausted' = TRUE
          /\ UNCHANGED item
     ELSE jpc' = "script" /\ UNCHANGED <<item, exhausted, jret>>
  /\ UNCHANGED <<sessionVars, pageVars, elem, attempt, searched, cands,
                 buttonFound, checks, pageError, warned, handed>>

\* part_007 and part_008, when no selector gave a button: one in-page search
\* that clicks the first element whose text fits. part_007 logs when there is
\* none; part_008 throws.
Script(clicked, throws) ==
  /\ jv \in {"part_007", "part_008"} /\ jpc = "script"
  /\ throws => ~clicked
  /\ IF clicked
     THEN /\ clickAttempts' = clickAttempts + 1
          /\ lastClick' = [ap |-> jpc, item |-> 1, n |-> 0, area |-> 0]
     ELSE UNCHANGED <<clickAttempts, lastClick>>
  /\ IF clicked \/ jv = "part_007"
     THEN jpc' = "verify" /\ UNCHANGED <<jret, exhausted>>
     ELSE jpc' = "done" /\ jret' = "threw" /\ exhausted' = ~throws
  /\ pageError' = (pageError \/ (throws /\ jv = "part_008"))
  /\ UNCHANGED <<sessionVars, pageVars, walkVars, buttonFound, checks,
                 warned, handed>>

\* part_008 and browser-automation.js: the click on the button that was found
Click(throws) ==
  /\ jv \in {"part_008", "browser-automation"} /\ jpc = "click"
  /\ clickAttempts' = clickAttempts + 1
  /\ lastClick' = [ap |-> jpc, item |-> item, n |-> 0, area |-> 0]
  /\ IF throws
     THEN jpc' = "done" /\ jret' = "threw" /\ pageError' = TRUE
     ELSE jpc' = "verify" /\ UNCHANGED <<jret, pageError>>
  /\ UNCHANGED <<sessionVars, pageVars, walkVars, buttonFound, checks,
                 exhausted, warned, handed>>

\* the check after the click (inSpace, hasJoined, isPlaying): a warning when
\* it is negative, and the return. part_007 has no return statement.
Verify(seen, throws) ==
  /\ jv # Escalating /\ jpc = "verify"
  /\ throws => ~seen
  /\ jpc' = "done"
  /\ pageError' = (pageError \/ throws)
  /\ warned' = (~throws /\ ~seen)
  /\ exhausted' = (~throws /\ ~seen)
  /\ jret' = CASE throws -> "threw"
               [] jv = "part_007" -> "undefined"
               [] jv = "part_008" -> "object"
               [] OTHER -> "page"
  /\ UNCHANGED <<sessionVars, pageVars, walkVars, clickVars, handed>>

\* index.js: setupAudioCapture(spaceObj.page)
HandOver ==
  /\ jpc = "done" /\ jret \notin {"none", "threw"} /\ handed = "none"
  /\ handed' = CASE jret = "object" -> "page"
                 [] jret = "page" -> "undefined"
                 [] OTHER -> "typeError"
  /\ UNCHANGED <<sessionVars, pageVars, jpc, walkVars, clickVars, exhausted,
                 pageError, warned, jret>>

\* joinTwitterSpace has not been called
JoinIdle ==
  /\ jpc = "idle" /\ item = 1 /\ elem = FALSE /\ attempt = 0
  /\ searched = FALSE /\ cands = <<>>
  /\ buttonFound = FALSE /\ clickAttempts = 0 /\ checks = 0
  /\ lastClick = [ap |-> "none", item |-> 0, n |-> 0, area |-> 0]
  /\ exhausted = FALSE /\ pageError = FALSE /\ warned = FALSE
  /\ jret = "none" /\ handed = "none"

\* ---- loginToTwitter -------------------------------------------------------
\* Two forms: the one of part_006 (with part_007 and part_008 the same in these
\* steps), which walks a selector list per field, and the one of
\* src/browser/browser-automation.js, which waits for one selector per field.
LoginVariants == {"part_006", "browser-automation"}
LookupSteps == {"username", "next", "email", "emailNext", "password", "loginButton"}


\* the flow staying at the step it is at
SameStep(step) == step

\* the step that follows a step of the login flow
AfterStep(step) ==
  IF lv = "part_006"
  THEN CASE step = "username" -> "next"
         [] step = "next" -> "emailCheck"
         [] step = "email" -> "emailNext"
         [] step = "emailNext" -> "password"
         [] step = "password" -> "loginButton"
         [] OTHER -> "verify"
  ELSE CASE step = "username" -> "emailCheck"
         [] step = "email" -> "password"
         [] OTHER -> "verify"

\* the step whose click or key press submits the password
SubmitStep == IF lv = "part_006" THEN "loginButton" ELSE "password"

\* what the step types into its field: part_006 types the user name first and
\* the email address (the user name when there is none) when asked for it;
\* browser-automation.js types email || username both times
Typing(step) ==
  CASE step = "username" ->
         {<<step, IF lv = "browser-automation" /\ email THEN "email" ELSE "username">>}
    [] step = "email" -> {<<step, IF email THEN "email" ELSE "username">>}
    [] step = "password" -> {<<step, "password">>}
    [] OTHER -> {}

\* the credentials check and the navigation to the login page, in the order
\* of the file
LoginStart(loads) ==
  /\ lpc = "idle"
  /\ litem' = 1
  /\ IF lv = "browser-automation"
     THEN IF ~username \/ ~password
          THEN lpc' = "done" /\ lret' = "threw" /\ UNCHANGED navigated
          ELSE /\ navigated' = TRUE
               /\ IF loads THEN lpc' = "username" /\ UNCHANGED lret
                  ELSE lpc' = "done" /\ lret' = "threw"
     ELSE /\ navigated' = TRUE
          /\ IF loads /\ username /\ password
             THEN lpc' = "username" /\ UNCHANGED lret
             ELSE lpc' = "done" /\ lret' = "threw"
  /\ UNCHANGED <<loginRest, credVars, typed, touched, submitted,
                 failurePhrase, marker, looked>>

\* one lookup of the field or button of the current step, and the fill, click
\* or key press on it when it is there; fails and marks are what the page
\* shows after the password was submitted. The loop for the Next button
\* after the email address assigns to the nextButton of the earlier step, so
\* that with no candidate resolved the variable still holds that button.
Lookup(found, fails, marks) ==
  /\ lpc \in LookupSteps
  /\ (fails \/ marks) => (found /\ lpc = SubmitStep)
  /\ touched' = TRUE
  /\ IF found
     THEN /\ lpc' = AfterStep(lpc) /\ litem' = 1 /\ UNCHANGED lret
          /\ IF lpc = SubmitStep
             THEN submitted' = TRUE /\ failurePhrase' = fails /\ marker' = marks
             ELSE UNCHANGED <<submitted, failurePhrase, marker>>
     ELSE /\ UNCHANGED <<submitted, failurePhrase, marker>>
          /\ IF lv = "part_006" /\ litem < MaxSelectors
             THEN litem' = litem + 1 /\ UNCHANGED <<lpc, lret>>
             ELSE IF lv = "part_006" /\ lpc = "username"
             THEN lpc' = "anyInput" /\ UNCHANGED <<litem, lret>>
             ELSE IF lv = "part_006" /\ lpc = "emailNext"
             THEN lpc' = "staleNext" /\ UNCHANGED <<litem, lret>>
             ELSE lpc' = "done" /\ lret' = "threw" /\ UNCHANGED litem
  /\ typed' = IF found THEN typed \cup Typing(lpc) ELSE typed
  /\ looked' = Append(looked, [step |-> lpc, item |-> litem, found |-> found])
  /\ UNCHANGED <<loginRest, credVars, navigated>>

\* part_006, no username selector resolved: the first input of the page
AnyInput(found) ==
  /\ lv = "part_006" /\ lpc = "anyInput"
  /\ IF found THEN lpc' = AfterStep("username") /\ UNCHANGED lret
     ELSE lpc' = "done" /\ lret' = "threw"
  /\ typed' = IF found THEN typed \cup Typing("username") ELSE typed
  /\ looked' = Append(looked, [step |-> "username", item |-> 0, found |-> found])
  /\ litem' = 1
  /\ UNCHANGED <<loginRest, credVars, navigated, touched,
                 submitted, failurePhrase, marker>>

\* part_006, no Next selector resolved after the email address: the click goes
\* to the button of the earlier step, which the page may have dropped
StaleNext(throws) ==
  /\ lv = "part_006" /\ lpc = "staleNext"
  /\ IF throws THEN lpc' = "done" /\ lret' = "threw"
     ELSE lpc' = AfterStep("emailNext") /\ UNCHANGED lret
  /\ litem' = 1
  /\ UNCHANGED <<loginRest, credVars, typed, navigated, touched,
                 submitted, failurePhrase, marker, looked>>

\* does the page ask for the email address
EmailCheck(needed) ==
  /\ lpc = "emailCheck"
  /\ lpc' = IF needed THEN "email" ELSE "password"
  /\ UNCHANGED <<loginRest, credVars, typed, litem, navigated, touched,
                 submitted, failurePhrase, marker, lret, looked>>

\* the check after submission: part_006 looks for the failure phrases only,
\* browser-automation.js for the post-login markers only
LoginVerify ==
  /\ lpc = "verify"
  /\ lpc' = "done"
  /\ LET loginSuccessful == ~failurePhrase
         isLoggedIn == marker
     IN  lret' = IF (IF lv = "part_006" THEN loginSuccessful ELSE isLoggedIn)
                 THEN "context" ELSE "threw"
  /\ UNCHANGED <<loginRest, credVars, typed, litem, navigated, touched,
                 submitted, failurePhrase, marker, looked>>

\* loginToTwitter has not been called
LoginIdle ==
  /\ lpc = "idle" /\ litem = 1 /\ navigated = FALSE /\ touched = FALSE
  /\ typed = {} /\ looked = <<>>
  /\ submitted = FALSE /\ failurePhrase = FALSE /\ marker = FALSE
  /\ lret = "none"

\* the login step is one step of main here
LoginSkipped ==
  lv = "part_006" /\ username = TRUE /\ password = TRUE /\ email = TRUE /\ LoginIdle

\* ---- monitorTwitterSpaces -------------------------------------------------
\* A discovery resolves to a non-empty list of rooms or rejects. A room is
\* its identifier here; 0 stands for a room whose URL gave no identifier.
Rooms == 0..MaxRooms
Discoveries == (SUBSET Rooms) \ {{}}
WithId(spaces) == spaces \ {0}

\* the initial discovery resolves: its rooms are marked as known and the
\* callback gets all of them
InitialDiscovery(spaces) ==
  /\ initial = "pending"
  /\ initial' = "done"
  /\ knownSpaceIds' = knownSpaceIds \cup WithId(spaces)
  /\ calls' = Append(calls, [spaces |-> spaces, isInitial |-> TRUE])
  /\ UNCHANGED <<monRest, isRunning, polls, pending>>

\* the initial discovery rejects: its promise has no rejection handler
InitialFails ==
  /\ initial = "pending"
  /\ initial' = "failed"
  /\ UNCHANGED <<monRest, knownSpaceIds, isRunning, polls, pending, calls>>

\* the interval fires: a discovery starts unless the monitor was stopped
PollTick ==
  /\ isRunning /\ polls < MaxPolls
  /\ polls' = polls + 1
  /\ pending' = pending + 1
  /\ UNCHANGED <<monRest, knownSpaceIds, isRunning, initial, calls>>

\* the discovery of a tick resolves: the rooms not yet known go to the
\* callback, if there are any
PollDone(spaces) ==
  /\ pending > 0
  /\ pending' = pending - 1
  /\ LET newSpaces == WithId(spaces) \ knownSpaceIds
     IN  calls' = IF newSpaces # {}
                  THEN Append(calls, [spaces |-> newSpaces, isInitial |-> FALSE])
                  ELSE calls
  /\ knownSpaceIds' = knownSpaceIds \cup WithId(spaces)
  /\ UNCHANGED <<monRest, isRunning, initial, polls>>

\* the discovery of a tick rejects: the error is logged
PollFails ==
  /\ pending > 0
  /\ pending' = pending - 1
  /\ UNCHANGED <<monRest, knownSpaceIds, isRunning, initial, polls, calls>>

\* the controller's stop
Stop ==
  /\ isRunning
  /\ isRunning' = FALSE
  /\ UNCHANGED <<monRest, knownSpaceIds, initial, polls, pending, calls>>

\* monitorTwitterSpaces has just returned its controller
MonitorStarted ==
  /\ knownSpaceIds = {} /\ isRunning = TRUE /\ initial = "pending"
  /\ polls = 0 /\ pending = 0 /\ calls = <<>>

\* ---- findMostPopularSpace -------------------------------------------------
\* What discoverTwitterSpaces resolved to: the rooms in page order, each with
\* its listener count; the empty list stands for a discovery without rooms.
SpaceLists ==
  UNION {[1..n -> [id : {0}, listeners : 0..MaxListeners]] : n \in 0..MaxSpaces}
Numbered(list) == [i \in 1..Len(list) |-> [list[i] EXCEPT !.id = i]]

\* the mutation of InsertByListeners that puts a room behind its equals
InsertBehindEquals(a, s) ==
  LET behind == {i \in 1..Len(s) : s[i].listeners >= a.listeners}
      k == IF behind = {} THEN 0 ELSE CHOOSE i \in behind : \A j \in behind : j <= i
  IN  SubSeq(s, 1, k) \o <<a>> \o SubSeq(s, k + 1, Len(s))

\* spaces.sort((a, b) => b.listeners - a.listeners): most listeners first, and
\* rooms with equal counts in the order they had (the sort is stable)
RECURSIVE InsertByListeners(_, _)
InsertByListeners(a, s) ==
  IF s = <<>> THEN <<a>>
  ELSE IF a.listeners >= Head(s).listeners THEN <<a>> \o s
  ELSE <<Head(s)>> \o InsertByListeners(a, Tail(s))

RECURSIVE SortByListeners(_)
SortByListeners(s) ==
  IF s = <<>> THEN <<>>
  ELSE InsertByListeners(Head(s), SortByListeners(Tail(s)))

FindMostPopularSpace ==
  /\ popular = "idle"
  /\ IF discovered = <<>>
     THEN popular' = "threw" /\ UNCHANGED mostPopular
     ELSE popular' = "returned" /\ mostPopular' = SortByListeners(discovered)[1]
  /\ UNCHANGED <<popRest, discovered>>

\* findMostPopularSpace has not been called
PopularIdle ==
  /\ discovered = <<>> /\ popular = "idle"
  /\ mostPopular = [id |-> 0, listeners |-> 0]

\* ---- room URLs ------------------------------------------------------------
\* A URL is a sequence of pieces: the alternate and the primary domain, the
\* path of a room, the preview suffix, and a piece that stands for any other
\* text. A search string of the code is a sequence of pieces as well.
Pieces == {"x.com", "twitter.com", "/i/spaces/", "/peek", "1abc"}
Urls(n) == UNION {[1..k -> Pieces] : k \in 0..n}

\* the places where pattern occurs in url: url.includes(pattern) when there is one
Occurrences(url, pattern) ==
  {i \in 1..(Len(url) - Len(pattern) + 1) :
     SubSeq(url, i, i + Len(pattern) - 1) = pattern}

\* url.replace(pattern, by) with a string pattern: the first occurrence only
ReplaceFirst(url, pattern, by) ==
  LET occ == Occurrences(url, pattern)
  IN  IF occ = {} THEN url
      ELSE LET i == CHOOSE k \in occ : \A j \in occ : k <= j
           IN  SubSeq(url, 1, i - 1) \o by \o SubSeq(url, i + Len(pattern), Len(url))

\* ---- discoverTwitterSpaces ------------------------------------------------
\* the in-page extraction keeps the cards whose link holds the path of a room
Extracted(hrefs) == SelectSeq(hrefs, LAMBDA u : Occurrences(u, <<"/i/spaces/">>) # {})

\* the filter on empty URLs and the map that rewrites the alternate domain
ValidSpace(u) ==
  IF Occurrences(u, <<"x.com", "/i/spaces/">>) # {}
  THEN ReplaceFirst(u, <<"x.com", "/i/spaces/">>, <<"twitter.com", "/i/spaces/">>)
  ELSE u
ValidSpaces(list) ==
  LET kept == SelectSeq(list, LAMBDA u : u # <<>>)
  IN  [i \in 1..Len(kept) |-> ValidSpace(kept[i])]

DiscoverTwitterSpaces ==
  /\ discovery = "idle"
  /\ LET found == ValidSpaces(Extracted(cards))
     IN  IF found = <<>>
         THEN discovery' = "threw" /\ UNCHANGED validSpaces
         ELSE discovery' = "returned" /\ validSpaces' = found
  /\ UNCHANGED <<discRest, cards>>

\* discoverTwitterSpaces has not been called
DiscoverIdle == cards = <<>> /\ validSpaces = <<>> /\ discovery = "idle"

\* ---- joinTwitterSpace: the URL it goes to ---------------------------------
\* spaceUrl.replace('x.com', 'twitter.com') and then .replace('/peek', '')
NormalizedUrl(u) ==
  ReplaceFirst(ReplaceFirst(u, <<"x.com">>, <<"twitter.com">>), <<"/peek">>, <<>>)

\* joinTwitterSpace normalizes the URL it is given; the URL it returns in its
\* session object is the one a later call is given
NormalizeUrl ==
  /\ urlCalls < 2
  /\ urlCalls' = urlCalls + 1
  /\ normalizedUrl' = NormalizedUrl(IF urlCalls = 0 THEN spaceUrl ELSE normalizedUrl)
  /\ firstUrl' = IF urlCalls = 0 THEN normalizedUrl' ELSE firstUrl
  /\ UNCHANGED <<urlRest, spaceUrl>>

\* joinTwitterSpace has not been called with a URL
UrlIdle ==
  spaceUrl = <<>> /\ normalizedUrl = <<>> /\ firstUrl = <<>> /\ urlCalls = 0

\* ---- audio-capture.js: setupAudioCapture ------------------------------------
\* the loop that looks for media elements (maxAttempts is in the constants)

\* the page is looked at first and after the first wait; a closed page and a
\* failing wait both end the call with an error
SetupStart(closed, waitFails, closedAfter) ==
  /\ spc = "idle"
  /\ IF closed \/ waitFails \/ closedAfter
     THEN spc' = "done" /\ setupRet' = "threw"
     ELSE spc' = "check" /\ setupRet' = setupRet
  /\ UNCHANGED <<capRest, attempts, mediaElementsFound, setupLog, setupWarned>>

\* one pass of the while loop up to the interaction: attempts++ and the
\* page.evaluate that looks for audio and video elements; a failing evaluate
\* counts as none found
MediaCheck(has, fails) ==
  /\ spc = "check"
  /\ LET hasMediaElements == has /\ ~fails
     IN /\ attempts' = attempts + 1
        /\ mediaElementsFound' = hasMediaElements
        /\ setupLog' = Append(setupLog, IF fails THEN "checkError"
                                        ELSE IF has THEN "found" ELSE "none")
        /\ spc' = IF hasMediaElements THEN "context"
                  ELSE IF attempts' < maxAttempts THEN "interact"
                  ELSE "context"
  /\ UNCHANGED <<capRest, setupRet, setupWarned>>

\* the rest of a pass that found nothing and is not the last: the clicks on
\* the possible triggers (errors caught), the screenshot (errors caught) and
\* the wait, whose error leaves the call
Interact(fails, waitFails) ==
  /\ spc = "interact"
  /\ setupLog' = Append(setupLog, IF fails THEN "interactError" ELSE "interact")
  /\ IF waitFails
     THEN spc' = "done" /\ setupRet' = "threw"
     ELSE spc' = "check" /\ setupRet' = setupRet
  /\ UNCHANGED <<capRest, attempts, mediaElementsFound, setupWarned>>

\* after the loop: the warning when nothing was found, the AudioContext check,
\* the capture object built in the page, the recorder and the return
Context(available, createFails) ==
  /\ spc = "context"
  /\ setupWarned' = ~mediaElementsFound
  /\ spc' = "done"
  /\ setupRet' = IF ~available \/ createFails THEN "threw" ELSE "object"
  /\ UNCHANGED <<capRest, attempts, mediaElementsFound, setupLog>>

\* setupAudioCapture has not been called
SetupIdle ==
  /\ spc = "idle" /\ attempts = 0 /\ mediaElementsFound = FALSE
  /\ setupLog = <<>> /\ setupWarned = FALSE /\ setupRet = "none"

\* ---- audio-capture.js: the audioBuffer of the capture object in the page ----
\* audioBuffer.shift() in place of the push's newest entry being kept
PushedDropsNewest(buf, entry) ==
  IF Len(buf) >= audioBufferCap THEN buf ELSE Append(buf, entry)

\* onaudioprocess: push, then shift when the length is beyond the cap
Pushed(buf, entry) ==
  LET b == Append(buf, entry)
  IN IF Len(b) > audioBufferCap THEN Tail(b) ELSE b

\* onaudioprocess with the next block of samples; the blocks are numbered in
\* the order in which they arrive
OnAudioProcess ==
  /\ arrivals < MaxArrivals
  /\ arrivals' = arrivals + 1
  /\ audioBuffer' = Pushed(audioBuffer, arrivals + 1)
  /\ UNCHANGED <<bufRest, drains>>

\* getAudioData: null on an empty buffer, else the blocks one after another in
\* the order of the buffer, which is emptied
GetAudioData ==
  /\ Len(drains) < MaxDrains
  /\ drains' = Append(drains, [isNull |-> audioBuffer = <<>>, data |-> audioBuffer])
  /\ audioBuffer' = <<>>
  /\ UNCHANGED <<bufRest, arrivals>>

\* the capture object has not been built
BufferIdle == audioBuffer = <<>> /\ arrivals = 0 /\ drains = <<>>

\* ---- audio-capture.js: the S16LE conversion of the drained samples ----------
\* A sample is an element of a Float32Array: sign, 24-bit mantissa m and
\* exponent s, the number m / 2^s (m = 0, or 2^23 <= m < 2^24).
MantissaTop == 2^23

\* the long division numerator / scale carried on until the quotient has 24
\* bits: q = floor(numerator * 2^s / scale), r the remainder
RECURSIVE Mantissa(_, _, _)
Mantissa(q, r, s) ==
  IF q >= MantissaTop THEN [q |-> q, r |-> r, s |-> s]
  ELSE Mantissa(2 * q + ((2 * r) \div scale), (2 * r) % scale, s + 1)

\* the Float32Array element nearest to k / scale (round to nearest, ties to even)
ToFloat32(k) ==
  LET n == IF k < 0 THEN -k ELSE k
      d == Mantissa(n \div scale, n % scale, 0)
      up == 2 * d.r > scale \/ (2 * d.r = scale /\ d.q % 2 = 1)
      m == IF up THEN d.q + 1 ELSE d.q
  IN IF n = 0 THEN [neg |-> FALSE, m |-> 0, s |-> 23]
     ELSE IF m = 2 * MantissaTop THEN [neg |-> k < 0, m |-> MantissaTop, s |-> d.s - 1]
     ELSE [neg |-> k < 0, m |-> m, s |-> d.s]

\* the sample passed on as it is
Unclamped(x) == x

\* Math.max(-1, Math.min(1, x)); a sample with s > 23 is below 1 in magnitude
Clamp(x) ==
  IF x.s <= 23 /\ x.m > 2^(x.s)
  THEN [neg |-> x.neg, m |-> MantissaTop, s |-> 23]
  ELSE x

\* Math.floor(sample * scale): the product m * scale / 2^s is exact in a
\* double; it is computed here as (m * 2^15 - m) / 2^15 / 2^(s - 15), with no
\* intermediate result beyond 32 bits. The product is an integer only when
\* 2^s divides m, scale being odd.
FloorScaled(x) ==
  LET mag == (x.m + ((-(x.m)) \div (scale + 1))) \div 2^(x.s - 15)
      exact == x.m % 2^(Min(x.s, 24)) = 0
  IN IF ~x.neg THEN mag
     ELSE IF exact THEN -mag ELSE -mag - 1

\* one pass of the conversion loop on the sample float32Array[i]
Convert ==
  /\ ~converted
  /\ converted' = TRUE
  /\ int16Sample' = FloorScaled(Clamp(ToFloat32(sampleK)))
  /\ UNCHANGED <<convRest, sampleK>>

\* no sample has been drained
ConvertIdle == sampleK = 0 /\ converted = FALSE /\ int16Sample = 0

\* ---- joinTwitterSpace: the end of the call, around checkIfAudioIsPlaying -----
\* part_006, browser-automation.js and part_009 end differently. The page is
\* the same for the two runs that are compared: gateEnv says which of its
\* calls fail (before the check; the click on the play buttons and the wait
\* after a negative check; the last screenshot).
GateVariants == {"part_006", "browser-automation", "part_009"}

\* checkIfAudioIsPlaying: what the page shows, or its page.evaluate fails and
\* the catch returns false
CheckAnswers == {"playing", "silent", "error"}
IsPlaying(answer) == answer = "playing"

\* the calls of checkIfAudioIsPlaying a run makes, given how they go:
\* part_006 checks again after a negative check and the play buttons
ChecksMade(v, env, first, second) ==
  IF env.before THEN <<>>
  ELSE IF v = "part_006" /\ ~IsPlaying(first) /\ ~env.playButtons
       THEN <<first, second>>
  ELSE <<first>>

\* how the call ends
JoinOutcome(v, env, first) ==
  IF env.before THEN "threw"
  ELSE CASE v = "part_009" -> IF IsPlaying(first) THEN "returned" ELSE "threw"
         [] v = "browser-automation" -> "returned"
         [] OTHER -> IF ~IsPlaying(first) /\ env.playButtons THEN "threw"
                     ELSE IF env.screenshot THEN "threw"
                     ELSE "returned"

\* one of the two runs from the click to its end, with how its checks go
GateRun(run, first, second) ==
  /\ gateRuns[run].state = "none"
  /\ gateRuns' = [gateRuns EXCEPT ![run] =
                    [state |-> JoinOutcome(gv, gateEnv, first),
                     checks |-> ChecksMade(gv, gateEnv, first, second)]]
  /\ UNCHANGED <<gateRest, gv, gateEnv>>

NoRun == [state |-> "none", checks |-> <<>>]

\* joinTwitterSpace has not come to its end
GateIdle ==
  /\ gv = "part_006"
  /\ gateEnv = [before |-> FALSE, playButtons |-> FALSE, screenshot |-> FALSE]
  /\ gateRuns = [run \in 1..2 |-> NoRun]

\* ---- part_006: setupWebSocketConnection --------------------------------------
\* the endpoint it is given: a ws:// or wss:// URL, one of another scheme, none
PageEndpoints == {"ws", "wss", "http", "none"}
ValidScheme(e) == e \in {"ws", "wss"}

\* one call of connectWebSocket up to its return or its recursive call:
\* reconnectAttempt++, the scheme check inside the try (startsWith on a
\* missing endpoint raises there as well), the WebSocket made in the page and
\* how that went; the catch waits and calls connectWebSocket again below
\* maxReconnectAttempts and returns false at it
ConnectWebSocket(outcome) ==
  /\ pagePc = "connect"
  /\ outcome = "invalid" <=> ~ValidScheme(websocketEndpoint)
  /\ pageAttempt' = pageAttempt + 1
  /\ pageLog' = Append(pageLog, outcome)
  /\ pageOpened' = IF outcome = "invalid" THEN pageOpened ELSE pageOpened + 1
  /\ IF outcome = "open"
     THEN pagePc' = "done" /\ pageRet' = "true"
     ELSE IF pageAttempt' < maxReconnectAttempts
          THEN pagePc' = "connect" /\ pageRet' = pageRet
          ELSE pagePc' = "done" /\ pageRet' = "false"
  /\ UNCHANGED <<pwsRest, websocketEndpoint>>

\* setupWebSocketConnection has not been called
PageSocketIdle ==
  /\ websocketEndpoint = "ws" /\ pagePc = "idle" /\ pageAttempt = 0
  /\ pageOpened = 0 /\ pageLog = <<>> /\ pageRet = "none"

\* ---- joinTwitterSpace: what the room page says ------------------------------
\* document.body.innerText as the words of the phrase that tells the state of
\* the room: a live room, an ended one in the two spellings the files look
\* for, one that was not found, one that is unavailable
Texts == {<<"Start", "listening">>,
          <<"This", "space", "has", "ended">>,
          <<"This", "Space", "has", "ended">>,
          <<"Space", "not", "found">>,
          <<"This", "space", "is", "unavailable">>}

\* innerText.includes(phrase)
Includes(text, phrase) == Occurrences(text, phrase) # {}

\* the validity checks of part_006 (three phrases that must be absent) and of
\* part_008 (a word of a room page must be there, and no phrase of an ended room)
TextValid(v, text) ==
  IF v = "part_006"
  THEN /\ ~Includes(text, <<"This", "space", "has", "ended">>)
       /\ ~Includes(text, <<"Space", "not", "found">>)
       /\ ~Includes(text, <<"This", "space", "is", "unavailable">>)
  ELSE /\ \/ Includes(text, <<"Space">>) \/ Includes(text, <<"Spaces">>)
          \/ Includes(text, <<"Listening">>)
          \/ Includes(text, <<"Start", "listening">>)
       /\ ~(\/ Includes(text, <<"This", "Space", "has", "ended">>)
            \/ Includes(text, <<"Space", "ended">>))

\* no room page has been loaded
TextIdle == pageText = <<>>

\* the forms whose validity check reads the text of the page; part_007 looks
\* for the title and host elements, browser-automation.js has no check
ReadsText(v) == v \in {"part_006", "part_008"}

\* ---- capture-space.js and discover-spaces.js: main around the discovery -----
Callers == {"capture-space", "discover-spaces"}

\* discoverTwitterSpaces as its callers see it: it throws when no selector of
\* the listing matched and when no extracted room has a URL
Discovery(containerFound, n) ==
  IF ~containerFound \/ n = 0 THEN "threw" ELSE "returned"

\* main up to the settling of the discovery: capture-space.js awaits
\* findMostPopularSpace, which awaits the discovery with no catch of its own;
\* discover-spaces.js awaits the discovery itself
CallDiscovery ==
  /\ callerPc = "start"
  /\ callerPc' = "handle"
  /\ discoveryResult' = Discovery(spacesFound, withUrl)
  /\ UNCHANGED <<callRest, caller, spacesFound, withUrl, autoCapture, output,
                 said, exitStatus, capturing>>

\* what main does with it: both files catch the error, print it and call
\* process.exit(1); with rooms capture-space.js starts the capture and
\* discover-spaces.js prints them, saves them when asked to and starts the
\* capture when asked to
HandleDiscovery ==
  /\ callerPc = "handle"
  /\ callerPc' = "done"
  /\ IF discoveryResult = "threw"
     THEN said' = "error" /\ exitStatus' = "exit1" /\ capturing' = FALSE
     ELSE /\ said' = "found"
          /\ capturing' = (caller = "capture-space" \/ autoCapture)
          /\ exitStatus' = IF capturing' THEN "running" ELSE "ended"
  /\ UNCHANGED <<callRest, caller, spacesFound, withUrl, autoCapture, output,
                 discoveryResult>>

\* no main of these two files runs
CallerIdle ==
  /\ caller = "capture-space" /\ spacesFound = FALSE /\ withUrl = 0
  /\ autoCapture = FALSE /\ output = FALSE /\ callerPc = "idle"
  /\ discoveryResult = "none" /\ said = "none" /\ exitStatus = "running"
  /\ capturing = FALSE

\* ---- the specification ---------------------------------------------------
\* index and second declare --test-mode with the default true, so it is always
\* on; in orig it is a plain flag.
Setup ==
  /\ variant \in Variants
  /\ endpoint \in (IF variant = "index" THEN {"ws", "bad"} ELSE Endpoints)
  /\ hasUrl \in (IF variant = "orig" THEN {TRUE} ELSE BOOLEAN)
  /\ testMode \in (IF variant = "orig" THEN BOOLEAN ELSE {TRUE})
  /\ keepVm \in (IF testMode THEN {FALSE} ELSE BOOLEAN)
  /\ pc = "start" /\ proc = "running" /\ handlers = {}
  /\ vmInfo = FALSE /\ browser = FALSE /\ audioCapture = FALSE
  /\ mainWs = 0 /\ socks = <<>> /\ wsConnection = 0
  /\ connectionRetries = 0 /\ ws = 0 /\ connected = FALSE
  /\ reconnectAttempt = 0 /\ timers = 0 /\ scheduled = 0
  /\ connP = "idle" /\ hbLive = {}
  /\ recording = FALSE /\ produced = 0 /\ fileLen = 0
  /\ lastChunk = "none" /\ lastSend = "none"
  /\ runs = <<>> /\ delivered = {}
  /\ sentLog = <<>> /\ pageBuf = <<>> /\ evals = <<>> /\ cleared = FALSE

\* setupAudioCapture always builds a recorder
\* the join step is one step of main here: its own walk stays where it is
JoinSkipped ==
  /\ jv = Escalating /\ isValidSpace = TRUE /\ alreadyInSpace = FALSE
  /\ audio = FALSE /\ JoinIdle

\* every function that is modelled on its own, but the named one, is idle
Idle(except) ==
  /\ IF except = "join" THEN TRUE ELSE JoinSkipped
  /\ IF except = "login" THEN TRUE ELSE LoginSkipped
  /\ IF except = "monitor" THEN TRUE ELSE MonitorStarted
  /\ IF except = "pop" THEN TRUE ELSE PopularIdle
  /\ IF except = "disc" THEN TRUE ELSE DiscoverIdle
  /\ IF except = "url" THEN TRUE ELSE UrlIdle
  /\ IF except = "cap" THEN TRUE ELSE SetupIdle
  /\ IF except = "buf" THEN TRUE ELSE BufferIdle
  /\ IF except = "conv" THEN TRUE ELSE ConvertIdle
  /\ IF except = "gate" THEN TRUE ELSE GateIdle
  /\ IF except = "pws" THEN TRUE ELSE PageSocketIdle
  /\ IF except = "join" THEN TRUE ELSE TextIdle
  /\ IF except = "call" THEN TRUE ELSE CallerIdle

Init == Setup /\ hasRecorder = TRUE /\ Idle("none")

Next ==
  \/ MainStart
  \/ \E ok \in BOOLEAN : MainStep(ok)
  \/ MainConnect
  \/ TimerFire(MaxSockets)
  \/ \E s \in 1..Len(socks) : SockOpen(s)
  \/ \E s \in 1..Len(socks) : ConnectFail(s)
  \/ \E s \in 1..Len(socks) : SockError(s)
  \/ \E s \in 1..Len(socks), code \in {1000, 1005, 1006} : SockClose(s, code)
  \/ SecondConnect
  \/ AcTimerFire(MaxSockets)
  \/ \E s \in 1..Len(socks) : AcSockOpen(s)
  \/ \E s \in 1..Len(socks) : AcConnectFail(s)
  \/ \E s \in 1..Len(socks) : AcSockError(s)
  \/ \E s \in 1..Len(socks), code \in {1000, 1005, 1006} : AcSockClose(s, code)
  \/ \E chunk \in {"ok", "bad"} : Chunk(chunk)
  \/ \E stopThrows \in BOOLEAN : MainCatch(stopThrows)
  \/ \E sig \in Signals, stopThrows \in BOOLEAN : Signal(sig, stopThrows)
  \/ \E r \in 1..Len(runs), ok \in BOOLEAN : CleanupResume(r, ok)

Spec == Init /\ [][Next]_vars

\* The connection phase of websocket-client.js on its own, over more connection
\* attempts: main up to its await of connectToWebSocket and what the sockets
\* and the reconnect timeouts do; no signal arrives and no chunk is produced.
RetryInit == Init /\ variant \in ClientVariants

RetryNext ==
  \/ MainStart
  \/ \E ok \in BOOLEAN : MainStep(ok)
  \/ MainConnect
  \/ TimerFire(MaxAttempts)
  \/ \E s \in 1..Len(socks) : SockOpen(s)
  \/ \E s \in 1..Len(socks) : ConnectFail(s)
  \/ \E s \in 1..Len(socks) : SockError(s)
  \/ \E s \in 1..Len(socks), code \in {1000, 1005, 1006} : SockClose(s, code)

RetrySpec == RetryInit /\ [][RetryNext]_vars

\* The connections and their heartbeat intervals, for the two transports: main
\* up to its await of the connect call, the sockets, the reconnect timeouts
\* and the ticks of the intervals.
HeartbeatInit == Init /\ hasUrl /\ endpoint = "ws"

HeartbeatNext ==
  \/ MainStart
  \/ \E ok \in BOOLEAN : MainStep(ok)
  \/ MainConnect
  \/ TimerFire(MaxSockets)
  \/ \E s \in 1..Len(socks) : SockOpen(s)
  \/ \E s \in 1..Len(socks) : ConnectFail(s)
  \/ \E s \in 1..Len(socks) : SockError(s)
  \/ \E s \in 1..Len(socks), code \in {1000, 1005, 1006} : SockClose(s, code)
  \/ \E c \in 1..Len(socks) : Heartbeat(c)
  \/ SecondConnect
  \/ AcTimerFire(MaxSockets)
  \/ \E s \in 1..Len(socks) : AcSockOpen(s)
  \/ \E s \in 1..Len(socks) : AcConnectFail(s)
  \/ \E s \in 1..Len(socks) : AcSockError(s)
  \/ \E s \in 1..Len(socks), code \in {1000, 1005, 1006} : AcSockClose(s, code)
  \/ \E c \in 1..Len(socks) : AcHeartbeat(c)

HeartbeatSpec == HeartbeatInit /\ [][HeartbeatNext]_vars

\* The path of the audio from its producer to the transport: the sessions up
\* to a shutdown, and startRecording of audio-capture.js called with an
\* audioCapture that has no recorder, which takes the in-page drain.
RelayInit ==
  /\ Setup /\ hasRecorder \in (IF variant = "second" THEN BOOLEAN ELSE {TRUE})
  /\ Idle("none")

RelayNext ==
  \/ MainStart
  \/ \E ok \in BOOLEAN : MainStep(ok)
  \/ MainConnect
  \/ TimerFire(MaxSockets)
  \/ \E s \in 1..Len(socks) : SockOpen(s)
  \/ \E s \in 1..Len(socks) : ConnectFail(s)
  \/ \E s \in 1..Len(socks) : SockError(s)
  \/ \E s \in 1..Len(socks), code \in {1000, 1005, 1006} : SockClose(s, code)
  \/ SecondConnect
  \/ AcTimerFire(MaxSockets)
  \/ \E s \in 1..Len(socks) : AcSockOpen(s)
  \/ \E s \in 1..Len(socks) : AcConnectFail(s)
  \/ \E s \in 1..Len(socks) : AcSockError(s)
  \/ \E s \in 1..Len(socks), code \in {1000, 1005, 1006} : AcSockClose(s, code)
  \/ \E chunk \in {"ok", "bad"} : Chunk(chunk)
  \/ PageAudio
  \/ \E fails \in BOOLEAN : DrainTick(fails)
  \/ DrainDone

RelaySpec == RelayInit /\ [][RelayNext]_vars

\* joinTwitterSpace on its own, in each of its four forms, on every page it
\* can find, followed by the line of index.js that uses what it returns.
JoinInit ==
  /\ Setup /\ variant = "index" /\ endpoint = "ws" /\ hasUrl
  /\ hasRecorder = TRUE
  /\ jv \in JoinVariants
  /\ pageText \in Texts
  /\ isValidSpace \in (IF ReadsText(jv) THEN {TextValid(jv, pageText)} ELSE BOOLEAN)
  /\ alreadyInSpace \in (IF isValidSpace THEN BOOLEAN ELSE {FALSE})
  /\ audio \in (IF alreadyInSpace THEN BOOLEAN ELSE {FALSE})
  /\ JoinIdle /\ Idle("join")

JoinNext ==
  \/ \E loads \in BOOLEAN : JoinStart(loads)
  \/ \E found \in BOOLEAN : Resolve(found)
  \/ \E throws, appears \in BOOLEAN : SelectorClick(throws, appears)
  \/ \E dom \in Doms, throws \in BOOLEAN : TextSearch(dom, throws)
  \/ \E dom \in Doms, throws \in BOOLEAN : LargestSearch(dom, throws)
  \/ \E throws, appears \in BOOLEAN : CandidateClick(throws, appears)
  \/ \E throws \in BOOLEAN : Viewport(throws)
  \/ \E throws, appears \in BOOLEAN : PositionClick(throws, appears)
  \/ \E throws \in BOOLEAN : JoinFinish(throws)
  \/ \E found, throws \in BOOLEAN : Select(found, throws)
  \/ \E clicked, throws \in BOOLEAN : Script(clicked, throws)
  \/ \E throws \in BOOLEAN : Click(throws)
  \/ \E seen, throws \in BOOLEAN : Verify(seen, throws)
  \/ HandOver

JoinSpec == JoinInit /\ [][JoinNext]_vars

\* loginToTwitter on its own, in both forms, with and without credentials.
LoginInit ==
  /\ Setup /\ variant = "index" /\ endpoint = "ws" /\ hasUrl
  /\ hasRecorder = TRUE /\ Idle("login")
  /\ lv \in LoginVariants /\ username \in BOOLEAN /\ password \in BOOLEAN
  /\ email \in BOOLEAN
  /\ LoginIdle

LoginNext ==
  \/ \E loads \in BOOLEAN : LoginStart(loads)
  \/ \E found, fails, marks \in BOOLEAN : Lookup(found, fails, marks)
  \/ \E found \in BOOLEAN : AnyInput(found)
  \/ \E throws \in BOOLEAN : StaleNext(throws)
  \/ \E needed \in BOOLEAN : EmailCheck(needed)
  \/ LoginVerify

LoginSpec == LoginInit /\ [][LoginNext]_vars

\* monitorTwitterSpaces on its own: the initial discovery and the interval
\* ticks in every order.
MonitorInit ==
  /\ Setup /\ variant = "index" /\ endpoint = "ws" /\ hasUrl
  /\ hasRecorder = TRUE /\ Idle("monitor") /\ MonitorStarted

MonitorNext ==
  \/ \E spaces \in Discoveries : InitialDiscovery(spaces)
  \/ InitialFails
  \/ PollTick
  \/ \E spaces \in Discoveries : PollDone(spaces)
  \/ PollFails
  \/ Stop

MonitorSpec == MonitorInit /\ [][MonitorNext]_vars

\* findMostPopularSpace on its own, over every discovery result of the bounds.
PopularInit ==
  /\ Setup /\ variant = "index" /\ endpoint = "ws" /\ hasUrl
  /\ hasRecorder = TRUE /\ Idle("pop")
  /\ discovered \in {Numbered(list) : list \in SpaceLists}
  /\ popular = "idle" /\ mostPopular = [id |-> 0, listeners |-> 0]

PopularNext == FindMostPopularSpace

PopularSpec == PopularInit /\ [][PopularNext]_vars

\* discoverTwitterSpaces on its own, over every list of cards of the bounds.
DiscoverInit ==
  /\ Setup /\ variant = "index" /\ endpoint = "ws" /\ hasUrl
  /\ hasRecorder = TRUE /\ Idle("disc")
  /\ cards \in UNION {[1..n -> Urls(MaxHrefLen)] : n \in 0..MaxCards}
  /\ validSpaces = <<>> /\ discovery = "idle"

DiscoverNext == DiscoverTwitterSpaces

DiscoverSpec == DiscoverInit /\ [][DiscoverNext]_vars

\* The URL normalization of joinTwitterSpace on its own, over every URL of the
\* bounds, applied once and then to its own result.
UrlInit ==
  /\ Setup /\ variant = "index" /\ endpoint = "ws" /\ hasUrl
  /\ hasRecorder = TRUE /\ Idle("url")
  /\ spaceUrl \in Urls(MaxUrlLen)
  /\ normalizedUrl = <<>> /\ firstUrl = <<>> /\ urlCalls = 0

UrlNext == NormalizeUrl

UrlSpec == UrlInit /\ [][UrlNext]_vars

\* setupAudioCapture on its own, with every outcome of its page calls.
SetupInit ==
  /\ Setup /\ variant = "index" /\ endpoint = "ws" /\ hasUrl
  /\ hasRecorder = TRUE /\ Idle("cap")
  /\ SetupIdle

SetupNext ==
  \/ \E closed, waitFails, closedAfter \in BOOLEAN :
       SetupStart(closed, waitFails, closedAfter)
  \/ \E has, fails \in BOOLEAN : MediaCheck(has, fails)
  \/ \E fails, waitFails \in BOOLEAN : Interact(fails, waitFails)
  \/ \E available, createFails \in BOOLEAN : Context(available, createFails)

SetupSpec == SetupInit /\ [][SetupNext]_vars

\* The audioBuffer of the page on its own: blocks arrive and the buffer is
\* drained at any moment.
BufferInit ==
  /\ Setup /\ variant = "index" /\ endpoint = "ws" /\ hasUrl
  /\ hasRecorder = TRUE /\ Idle("buf")
  /\ BufferIdle

BufferNext == OnAudioProcess \/ GetAudioData

BufferSpec == BufferInit /\ [][BufferNext]_vars

\* The conversion on its own, over the samples nearest to k / scale for every
\* k of the bound, below -1, within [-1, 1] and above 1.
ConvertInit ==
  /\ Setup /\ variant = "index" /\ endpoint = "ws" /\ hasUrl
  /\ hasRecorder = TRUE /\ Idle("conv")
  /\ sampleK \in (-MaxSample)..MaxSample
  /\ converted = FALSE /\ int16Sample = 0

ConvertNext == Convert

ConvertSpec == ConvertInit /\ [][ConvertNext]_vars

\* Two runs of the end of joinTwitterSpace on the same page, which differ in
\* nothing but what checkIfAudioIsPlaying returns to them.
GateInit ==
  /\ Setup /\ variant = "index" /\ endpoint = "ws" /\ hasUrl
  /\ hasRecorder = TRUE /\ Idle("gate")
  /\ gv \in GateVariants
  /\ gateEnv \in [before : BOOLEAN, playButtons : BOOLEAN, screenshot : BOOLEAN]
  /\ (gv # "part_006") => (~gateEnv.playButtons /\ ~gateEnv.screenshot)
  /\ gateRuns = [run \in 1..2 |-> NoRun]

GateNext ==
  \E run \in 1..2 : \E first, second \in CheckAnswers : GateRun(run, first, second)

GateSpec == GateInit /\ [][GateNext]_vars

\* setupWebSocketConnection on its own, with every endpoint and every way a
\* connection attempt in the page can go.
PageSocketInit ==
  /\ Setup /\ variant = "index" /\ endpoint = "ws" /\ hasUrl
  /\ hasRecorder = TRUE /\ Idle("pws")
  /\ websocketEndpoint \in PageEndpoints
  /\ pagePc = "connect" /\ pageAttempt = 0
  /\ pageOpened = 0 /\ pageLog = <<>> /\ pageRet = "none"

PageSocketNext ==
  \E outcome \in {"invalid", "open", "error", "timeout"} : ConnectWebSocket(outcome)

PageSocketSpec == PageSocketInit /\ [][PageSocketNext]_vars


\* The two mains that call the discovery with no room URL given, over what the
\* listing page holds and the options of the command line.
CallerInit ==
  /\ Setup /\ variant = "index" /\ endpoint = "ws" /\ hasUrl
  /\ hasRecorder = TRUE /\ Idle("call")
  /\ caller \in Callers /\ spacesFound \in BOOLEAN /\ withUrl \in 0..MaxCards
  /\ autoCapture \in BOOLEAN /\ output \in BOOLEAN
  /\ callerPc = "start" /\ discoveryResult = "none" /\ said = "none"
  /\ exitStatus = "running" /\ capturing = FALSE

CallerNext == CallDiscovery \/ HandleDiscovery

CallerSpec == CallerInit /\ [][CallerNext]_vars
\* The connection phase of audio-capture.js on its own, over a chain of
\* reconnects longer than maxReconnectAttempts: main up to its await of
\* connectToWebSocket, the sockets and the reconnect timeouts.
ReconnectInit == Init /\ variant = "second" /\ endpoint = "ws" /\ hasUrl

ReconnectNext ==
  \/ MainStart
  \/ MainStep(TRUE)
  \/ SecondConnect
  \/ AcTimerFire(MaxChain)
  \/ \E s \in 1..Len(socks) : AcSockOpen(s)
  \/ \E s \in 1..Len(socks) : AcConnectFail(s)
  \/ \E s \in 1..Len(socks) : AcSockError(s)
  \/ \E s \in 1..Len(socks), code \in RemoteCodes : AcSockClose(s, code)

ReconnectSpec == ReconnectInit /\ [][ReconnectNext]_vars
\* websocket-client.js with a caller of its closeWebSocketConnection: main up
\* to its await of the connect call, the sockets, the reconnect timeouts, the
\* ticks of the heartbeat intervals and the close call.
ClientCloseInit == Init /\ variant \in ClientVariants /\ hasUrl /\ endpoint = "ws"

ClientCloseNext ==
  \/ MainStart
  \/ \E ok \in BOOLEAN : MainStep(ok)
  \/ MainConnect
  \/ TimerFire(MaxSockets)
  \/ \E s \in 1..Len(socks) : SockOpen(s)
  \/ \E s \in 1..Len(socks) : ConnectFail(s)
  \/ \E s \in 1..Len(socks) : SockError(s)
  \/ \E s \in 1..Len(socks), code \in {1000, 1005, 1006} : SockClose(s, code)
  \/ \E c \in 1..Len(socks) : Heartbeat(c)
  \/ CloseWebSocketConnection

ClientCloseSpec == ClientCloseInit /\ [][ClientCloseNext]_vars

\* ---- the claims ------------------------------------------------------------
OneMetadataFirst(s) == socks[s].opened => socks[s].meta = 1 /\ ~socks[s].early

\* C1: on every connection instance that opened, exactly one metadata message
\* has been sent, and no audio payload was sent on it before the metadata.
C1_MetadataOncePerConnection ==
  \A s \in 1..Len(socks) : OneMetadataFirst(s)

NoneOpened == \A s \in 1..Len(socks) : ~socks[s].opened

\* C2: while every connection attempt of websocket-client.js has failed, at
\* most MAX_RETRIES reconnect attempts have been scheduled.
C2_ReconnectsBounded ==
  (variant \in ClientVariants /\ NoneOpened) => scheduled <= MAX_RETRIES

Started(run, step) ==
  \E i \in 1..Len(run.log) : run.log[i] = <<step, "start">>

\* C3: a teardown that is over, finished or cut short by an exception, has
\* attempted each of the four steps whose resource exists: stop recording,
\* close transport, close browser, terminate the VM.
C3_AllStepsAttempted ==
  \A r \in 1..Len(runs) :
    runs[r].status \in {"finished", "failed"} =>
      \A k \in 1..Len(CleanupSteps) :
        Applies(CleanupSteps[k]) => Started(runs[r], CleanupSteps[k])

NotOpen(ss, sock) == sock = 0 \/ ss[sock].st # "open"
Refused(r, ss) == ~r.ok /\ ~r.threw /\ r.socks = ss

Reconnected ==
  /\ mainWs # 0 /\ socks[mainWs].st = "closed"
  /\ \E s \in (mainWs + 1)..Len(socks) : socks[s].st = "open"

\* C5: after an unexpected closure and a successful automatic reconnect, a
\* chunk the recorder produces is sent on a connection opened by the reconnect.
C5_RelayResumes ==
  [][(Reconnected /\ produced' = produced + 1 /\ lastChunk' = "ok") =>
       /\ lastSend' = "true"
       /\ \E s \in (mainWs + 1)..Len(socks) :
            socks[s].st = "open" /\ socks'[s].audio = socks[s].audio + 1]_vars

C7_ConnectFailureNotFatal ==
  [][(connP # "rejected" /\ connP' = "rejected") => pc' = "record"]_vars

\* the order of the teardown steps; the in-page stop belongs to stopping the
\* recording
TeardownOrder ==
  <<"stopRecording", "pageStop", "wsClose", "browserClose", "terminateVM">>
Rank(step) == CHOOSE i \in 1..Len(TeardownOrder) : TeardownOrder[i] = step

InOrder(log) ==
  \A i, j \in 1..Len(log) :
    (i < j /\ log[i][2] = "start" /\ log[j][2] = "start") =>
      Rank(log[i][1]) < Rank(log[j][1])

Sequential(log) ==
  \A i \in 2..Len(log) :
    log[i][2] = "start" =>
      log[i - 1][2] \in {"end", "fail"} /\ log[i - 1][1] # log[i][1]

\* C8: a teardown started by a shutdown signal begins its steps in the order
\* stop recording, close transport, close browser, terminate VM, and begins
\* none before the step before it has finished or failed.
C8_CleanupInOrder ==
  \A r \in 1..Len(runs) :
    runs[r].code = 0 => InOrder(runs[r].log) /\ Sequential(runs[r].log)

\* a teardown started by a signal went through all four steps
C8_AllFourRan ==
  \E r \in 1..Len(runs) :
    /\ runs[r].code = 0 /\ runs[r].status = "finished"
    /\ \A k \in 1..Len(CleanupSteps) : Started(runs[r], CleanupSteps[k])

\* this step is the teardown's close() on the open socket s
ClosedByTeardown(s) ==
  socks[s].st = "open" /\ socks'[s].st = "closing" /\ runs' # runs

\* C9: the teardown's close of an open connection sends an 'end' message
\* first and closes with code 1000.
C9_EndThenNormalClose ==
  [][\A s \in 1..Len(socks) :
       ClosedByTeardown(s) =>
         /\ socks'[s].fin = socks[s].fin + 1
         /\ socks'[s].code = NORMAL_CLOSURE]_vars

\* socket s is closing since the teardown called close() on it
Deliberate(s) == socks[s].st = "closing" /\ socks[s].code # 1006

BoundLeft ==
  IF variant \in ClientVariants THEN connectionRetries < MAX_RETRIES
  ELSE reconnectAttempt < maxReconnectAttempts

\* C10: the closure of a connection with code 1000, or one the teardown
\* caused, schedules no reconnect; a closure with another code schedules one
\* while the attempt bound is not exceeded.
C10_OnlyAbnormalClosureReconnects ==
  [][\A s \in 1..Len(socks) :
       (socks[s].st # "closed" /\ socks'[s].st = "closed") =>
         LET code == socks'[s].code IN
           /\ (code = NORMAL_CLOSURE \/ Deliberate(s)) => scheduled' = scheduled
           /\ (code # NORMAL_CLOSURE /\ ~Deliberate(s) /\ BoundLeft) =>
                scheduled' > scheduled]_vars

\* the metadata messages sent on the sockets 1..n
RECURSIVE MetaSent(_)
MetaSent(n) == IF n = 0 THEN 0 ELSE socks[n].meta + MetaSent(n - 1)

\* every socket but the last opened and then closed unexpectedly, the last one
\* is open, and no teardown has begun
ClosedThenOpen ==
  /\ Alive /\ runs = <<>> /\ Len(socks) > 0
  /\ \A s \in 1..Len(socks) :
       /\ socks[s].opened
       /\ IF s = Len(socks) THEN socks[s].st = "open"
          ELSE socks[s].st = "closed" /\ socks[s].code # NORMAL_CLOSURE

\* C11: when the connection has closed unexpectedly k times and attempt k+1 is
\* open, exactly k reconnect delays have been set and k+1 metadata messages
\* have been sent in all.
C11_DelaysAndHandshakes ==
  ClosedThenOpen =>
    scheduled = Len(socks) - 1 /\ MetaSent(Len(socks)) = Len(socks)

\* the connections that are connecting or open
LiveSockets == {s \in 1..Len(socks) : socks[s].st \in {"connecting", "open"}}

\* C12: at any time at most one transport connection is connecting or open.
C12_OneConnectionAtATime == Cardinality(LiveSockets) <= 1

\* the heartbeat intervals whose next tick sends on socket s: every active
\* interval looks at the transport's current socket
TimersOn(s) ==
  IF (IF variant \in ClientVariants THEN wsConnection ELSE ws) = s
  THEN hbLive ELSE {}

\* C13: an open connection has exactly one active heartbeat interval sending
\* on it, the intervals of earlier connections included in the count, and no
\* heartbeat has been sent on a connection that never opened.
C13_OneHeartbeatTimer ==
  \A s \in 1..Len(socks) :
    /\ socks[s].st = "open" => Cardinality(TimersOn(s)) = 1
    /\ socks[s].hb > 0 => socks[s].opened

C15_EveryChunkBackedUp == fileLen = produced

PipelineMoves ==
  {<<"start", "provision">>, <<"start", "launch">>, <<"provision", "launch">>,
   <<"launch", "login">>, <<"login", "join">>, <<"join", "setup">>,
   <<"setup", "connect">>, <<"connect", "awaitConnect">>,
   <<"awaitConnect", "record">>, <<"record", "running">>,
   <<"catch", "cleanup">>}
  \cup {<<p, "catch">> : p \in {"start", "provision", "launch", "login", "join",
                               "setup", "connect", "awaitConnect", "record"}}

\* C17: main of index.js takes its steps in the order launch, authenticate,
\* join, set up capture, connect, start recording; after a failed step no
\* later step starts; and when the process ends before the recording is up,
\* other than by a signal, the teardown has run and the exit status is not zero.
C17_PipelineInOrderFailureFatal ==
  [][(variant \in ClientVariants) =>
       ((pc' # pc => <<pc, pc'>> \in PipelineMoves) /\
        ((proc = "running" /\ proc' \notin {"running", "killed"} /\ pc' # "running")
           => (runs' # <<>> /\ proc' = "exit1" /\ pc' = "cleanup")))]_vars

\* the place of an approach in the order joinTwitterSpace goes through them
ApproachRank(ap) ==
  CASE ap = "approach1" -> 1
    [] ap = "approach2" -> 2
    [] ap = "approach3" -> 3
    [] ap = "approach4" -> 4
    [] ap = "approach5" -> 5
    [] OTHER -> 0

\* click b comes later than click a in the escalating order: a later approach,
\* or a later entry of the same list, or on the same entry a later click
\* method, or a later element of the same search that is no larger
Later(a, b) ==
  \/ ApproachRank(b.ap) > ApproachRank(a.ap)
  \/ /\ b.ap = a.ap
     /\ \/ b.item > a.item
        \/ b.item = a.item /\ b.n > a.n /\ b.area <= a.area

\* Every click attempt of the escalating joinTwitterSpace comes later in the
\* order than the one before it, and none is made once a check has seen the
\* audio signal.
EscalatingOrderAndStop ==
  [][(jv = Escalating /\ clickAttempts' # clickAttempts) =>
       (~buttonFound /\ Later(lastClick, lastClick'))]_vars

\* C18: every click attempt of joinTwitterSpace comes later in the escalating
\* order than the one before it (approach by approach; per selector the plain,
\* the forced, the scripted click; per search the elements by decreasing
\* area), is followed by a check of the audio signal, and is made only while
\* no check has seen the signal.
C18_EscalatingRecheckedClicks ==
  [][(jv = Escalating /\ clickAttempts' # clickAttempts) =>
       (/\ ~buttonFound
        /\ Later(lastClick, lastClick')
        /\ checks' = checks + 1)]_vars

\* joinTwitterSpace has ended after its strategies were tried and none was seen
\* to give the signal, every other page call having succeeded
SoftFailure == jpc = "done" /\ exhausted /\ ~pageError

\* what the caller can use as the joined session: the object that holds the
\* page, or the page itself
SessionObjects == {"object", "page"}

\* C19: when no join-click strategy has produced the audio signal,
\* joinTwitterSpace has logged the soft failure and has returned a session
\* object; it has not thrown.
C19_SoftFailureReturnsSession ==
  SoftFailure => (warned /\ jret \in SessionObjects)

\* The same of the escalating form alone.
EscalatingSoftFailureReturns ==
  jv = Escalating => C19_SoftFailureReturnsSession

\* C20: on a room page that shows the session as joined, joinTwitterSpace makes
\* no click attempt and returns an object whose page index.js hands to
\* setupAudioCapture.
C20_AlreadyJoinedSkipsClicks ==
  (alreadyInSpace /\ ~pageError) =>
    /\ clickAttempts = 0
    /\ jpc = "done" => jret = "object"
    /\ handed \in {"none", "page"}

\* The same of the form that returns its browser object on that page.
ListeningAlreadyJoined ==
  jv = "part_008" => C20_AlreadyJoinedSkipsClicks

\* That form has returned from an already joined page and its page was handed on.
ListeningHandedOn ==
  jv = "part_008" /\ alreadyInSpace /\ handed = "page"

\* the user name or the password is missing from the environment
CredentialsMissing == ~username \/ ~password

\* C21: with the user name or the password missing, loginToTwitter, once
\* called, has thrown without having requested the login page and without
\* having looked up any field.
C21_MissingCredentialsFailFirst ==
  (CredentialsMissing /\ lpc # "idle") =>
    (lret = "threw" /\ ~navigated /\ ~touched)

\* The same without the order of the navigation: it has thrown and no field
\* was looked up.
MissingCredentialsFail ==
  (CredentialsMissing /\ lpc # "idle") => (lret = "threw" /\ ~touched)

\* C22: loginToTwitter has returned a context only after the password was
\* submitted and a post-login marker was on the page, and it has thrown
\* whenever the page after submission showed a failure phrase.
C22_PositiveSignalRequired ==
  /\ lret = "context" => (submitted /\ marker)
  /\ (lpc = "done" /\ submitted /\ failurePhrase) => lret = "threw"

\* What each form does of it: part_006 throws on a failure phrase,
\* browser-automation.js returns only on a marker.
LoginHalves ==
  /\ (lv = "part_006" /\ lpc = "done" /\ submitted /\ failurePhrase)
        => lret = "threw"
  /\ (lv = "browser-automation" /\ lret = "context") => (submitted /\ marker)

\* C23: the first callback of the monitor is the baseline, and no later
\* callback holds a room that an earlier callback held.
C23_BaselineThenOnlyNew ==
  /\ calls # <<>> => calls[1].isInitial
  /\ \A i, j \in 1..Len(calls) :
       i < j => WithId(calls[i].spaces) \cap WithId(calls[j].spaces) = {}

\* The same once the initial discovery has resolved before the first tick
\* has settled: then the baseline comes first and later callbacks are new.
BaselineFirstThenOnlyNew ==
  (calls # <<>> /\ calls[1].isInitial) =>
    \A i, j \in 1..Len(calls) :
      i < j => WithId(calls[i].spaces) \cap WithId(calls[j].spaces) = {}

\* the largest listener count of the discovery result
MaxCount == CHOOSE n \in {discovered[i].listeners : i \in 1..Len(discovered)} :
              \A i \in 1..Len(discovered) : discovered[i].listeners <= n
\* the rooms of the result that have it, by their place in the result
Fullest == {i \in 1..Len(discovered) : discovered[i].listeners = MaxCount}

\* C24: the room findMostPopularSpace returns has the largest listener count
\* of the discovery result, and it is the first room of the result that has
\* that count.
C24_MostPopularIsFirstMaximum ==
  popular = "returned" =>
    /\ mostPopular.listeners = MaxCount
    /\ mostPopular.id \in Fullest
    /\ \A i \in Fullest : mostPopular.id <= i

\* A room was returned from a result in which several rooms share the largest
\* count and a smaller room comes before them.
C24_TieBehindSmaller ==
  /\ popular = "returned" /\ Cardinality(Fullest) >= 2 /\ 1 \notin Fullest
  /\ mostPopular.id \in Fullest

\* a URL in which neither the alternate domain nor the preview suffix is left
Normalized(u) == Occurrences(u, <<"x.com">>) = {} /\ Occurrences(u, <<"/peek">>) = {}

\* C25: every room discoverTwitterSpaces returns has a URL that is not empty
\* and in which neither the alternate domain nor the preview suffix remains.
C25_DiscoveredUrlsNormalized ==
  \A i \in 1..Len(validSpaces) :
    validSpaces[i] # <<>> /\ Normalized(validSpaces[i])

\* Every room it returns has a URL that is not empty and that holds the path
\* of a room.
DiscoveredUrlsHoldRoomPath ==
  \A i \in 1..Len(validSpaces) :
    validSpaces[i] # <<>> /\ Occurrences(validSpaces[i], <<"/i/spaces/">>) # {}

\* a URL on the alternate domain that ends with the preview suffix, and the
\* same URL on the primary domain without the suffix
AlternatePreview(u) == Len(u) >= 2 /\ u[1] = "x.com" /\ u[Len(u)] = "/peek"
PrimaryPlain(u) == <<"twitter.com">> \o SubSeq(u, 2, Len(u) - 1)

\* C26: the normalization takes a URL on the alternate domain that ends with
\* the preview suffix to the same URL on the primary domain without the
\* suffix, leaves a URL without alternate domain and suffix as it is, and
\* applied to its own result gives that result again.
C26_NormalizationCanonicalIdempotent ==
  /\ urlCalls >= 1 =>
       /\ AlternatePreview(spaceUrl) => firstUrl = PrimaryPlain(spaceUrl)
       /\ Normalized(spaceUrl) => firstUrl = spaceUrl
  /\ urlCalls = 2 => normalizedUrl = firstUrl

\* The same of the URLs that hold the alternate domain and the preview suffix
\* at most once each.
NormalizationOfSingleOccurrences ==
  (/\ Cardinality(Occurrences(spaceUrl, <<"x.com">>)) <= 1
   /\ Cardinality(Occurrences(spaceUrl, <<"/peek">>)) <= 1)
    => C26_NormalizationCanonicalIdempotent

\* ---- setupAudioCapture: the search for media elements ------------------------
IsCheck(e) == e \in {"found", "none", "checkError"}

\* the last check has been made and has found no media element
NoneFoundByLastCheck == attempts = maxAttempts /\ ~mediaElementsFound

\* C27: setupAudioCapture checks for media elements at most maxAttempts times,
\* an interaction attempt lies between two consecutive checks, and the call
\* fails with an error when the last check has found no media element.
C27_MediaChecksThenError ==
  /\ attempts <= maxAttempts
  /\ \A i \in 1..(Len(setupLog) - 1) :
       IsCheck(setupLog[i]) => ~IsCheck(setupLog[i + 1])
  /\ (spc = "done" /\ NoneFoundByLastCheck) => setupRet = "threw"

\* The count and the interactions are as stated; what the call does after a
\* last check that found nothing is to warn and go on to the AudioContext.
MediaChecksBoundedAndSpaced ==
  /\ attempts <= maxAttempts
  /\ \A i \in 1..(Len(setupLog) - 1) :
       IsCheck(setupLog[i]) => ~IsCheck(setupLog[i + 1])
  /\ (spc = "done" /\ NoneFoundByLastCheck) => setupWarned

\* ---- the audioBuffer of the page ---------------------------------------------
Increasing(s) == \A i \in 1..(Len(s) - 1) : s[i] < s[i + 1]

\* an append keeps what was buffered, in its order, behind the dropped oldest
\* entry when the buffer was full
AppendDropsOldest ==
  (arrivals' = arrivals + 1) =>
     audioBuffer' = (IF Len(audioBuffer) = audioBufferCap
                     THEN Tail(audioBuffer) ELSE audioBuffer) \o <<arrivals'>>

\* a drain hands over the buffer as it is and leaves it empty
DrainHandsOver ==
  (Len(drains') = Len(drains) + 1) =>
     /\ drains'[Len(drains')].data = audioBuffer
     /\ audioBuffer' = <<>>

\* the drains return increasing blocks, each and one after another
NoEntryTwice ==
  /\ \A i \in 1..Len(drains) : Increasing(drains[i].data)
  /\ \A i, j \in 1..Len(drains) :
       (i < j /\ drains[i].data # <<>> /\ drains[j].data # <<>>) =>
          drains[i].data[Len(drains[i].data)] < drains[j].data[1]

\* C28: the in-page audio buffer never holds more than audioBufferCap entries;
\* an append beyond that depth drops the oldest entry and keeps the others in
\* arrival order; a drain returns the buffered entries in arrival order and
\* empties the buffer, so that no entry is returned by two drains.
C28_BufferCappedDrainedOnce ==
  /\ [](Len(audioBuffer) <= audioBufferCap /\ Increasing(audioBuffer))
  /\ [][AppendDropsOldest]_vars
  /\ [][DrainHandsOver]_vars
  /\ []NoEntryTwice

\* a full buffer has lost its oldest entry and has been drained, and a later
\* drain has returned what arrived after that
C28_OverflowThenTwoDrains ==
  /\ Len(drains) = 2
  /\ Len(drains[1].data) = audioBufferCap /\ drains[1].data[1] > 1
  /\ drains[2].data # <<>>

\* ---- the S16LE conversion ------------------------------------------------------
\* k clamped to the numerators of -1 and 1
ClampedK == IF sampleK > scale THEN scale ELSE IF sampleK < -scale THEN -scale ELSE sampleK

\* C29: the conversion computes floor(clamp(x, -1, 1) * scale): for the float
\* nearest to k / scale that is the clamped k or, the float lying below it,
\* the integer under it; the result lies in the signed 16-bit range; and for k
\* in -32768..32767 it is within 1 of k.
C29_FloorOfClampedInRange ==
  converted =>
    /\ int16Sample \in {ClampedK - 1, ClampedK}
    /\ (sampleK = 0 \/ sampleK >= scale) => int16Sample = ClampedK
    /\ sampleK <= -scale => int16Sample = ClampedK
    /\ int16Sample \in (-32768)..32767
    /\ sampleK \in (-32768)..32767 =>
         (int16Sample - sampleK) \in {-1, 0, 1}

\* a sample within (0, 1) whose float lies below k / scale has been converted
\* to k - 1
C29_RoundedDownSample ==
  converted /\ sampleK \in 1..(scale - 1) /\ int16Sample = sampleK - 1

\* ---- joinTwitterSpace and checkIfAudioIsPlaying --------------------------------
BothRunsEnded == \A run \in 1..2 : gateRuns[run].state # "none"

\* C30: whether joinTwitterSpace returns a session or throws does not depend
\* on what checkIfAudioIsPlaying returns: two runs on the same page that
\* differ only in the values of the check both return or both throw.
C30_OutcomeIgnoresAudioCheck ==
  BothRunsEnded => gateRuns[1].state = gateRuns[2].state

\* It holds in browser-automation.js, and in part_006 as long as the click on
\* the play buttons that follows a negative check does not fail.
AdvisoryCheckWhereNothingFollows ==
  (gv = "browser-automation" \/ (gv = "part_006" /\ ~gateEnv.playButtons))
     => C30_OutcomeIgnoresAudioCheck

BadEndpointOpensNothing ==
  ~ValidScheme(websocketEndpoint) =>
     /\ pageOpened = 0
     /\ pageAttempt <= maxReconnectAttempts
     /\ (pagePc = "done") => (pageRet = "false" /\ pageAttempt = maxReconnectAttempts)

\* websocket-client.js: an endpoint that is missing or that the WebSocket
\* constructor refuses rejects the call with no socket made and no timeout set.
ClientBadEndpointUnretried ==
  (variant \in ClientVariants /\ endpoint # "ws") =>
     (socks = <<>> /\ scheduled = 0 /\ timers = 0 /\ connP \in {"idle", "rejected"})

\* ---- the selector lists of loginToTwitter --------------------------------------
\* the lookups of a step, in the order in which they were made
RECURSIVE LookupsOf(_, _)
LookupsOf(log, step) ==
  IF log = <<>> THEN <<>>
  ELSE IF Head(log).step = step THEN <<Head(log)>> \o LookupsOf(Tail(log), step)
  ELSE LookupsOf(Tail(log), step)

\* the candidates of the list, beyond the last resort (candidate 0)
ListLookups(log, step) == SelectSeq(LookupsOf(log, step), LAMBDA l : l.item # 0)

\* the step at which the call threw: the one of its last lookup
FailedStep == looked[Len(looked)].step

\* the step has a last resort: the first input of the page
HasLastResort(step) == lv = "part_006" /\ step = "username"

\* the candidates of a list: MaxSelectors in part_006, one in browser-automation.js
Candidates == IF lv = "part_006" THEN MaxSelectors ELSE 1

Negative(text) == text # <<"Start", "listening">>

\* C33: when the room page shows a negative indicator (ended, not found,
\* unavailable), joinTwitterSpace throws before any click strategy is
\* attempted: no click is performed, and the call ends by throwing.
C33_InvalidRoomNeverClicked ==
  (Negative(pageText) /\ jpc # "idle") =>
     /\ clickAttempts = 0
     /\ jpc = "done" /\ jret = "threw"

\* It holds where the check of the file knows the phrase on the page: in
\* part_006 for its three phrases, in part_008 for a room that has ended or
\* that shows none of the words of a room page.
KnownPhraseNeverClicked ==
  (ReadsText(jv) /\ ~TextValid(jv, pageText)) => C33_InvalidRoomNeverClicked

\* ---- the callers of the discovery ------------------------------------------------
\* C34: a discovery failure (no listing container, or no room with a URL) is
\* treated by the callers as "no active rooms": the calling process does not
\* end with a fatal status because of it.
C34_DiscoveryFailureNotFatal ==
  discoveryResult = "threw" => exitStatus # "exit1"

\* What the two mains do with a failure: they print the error and exit with
\* status 1; the branch for an empty list is never taken.
DiscoveryFailureExits ==
  (discoveryResult = "threw" /\ callerPc = "done") =>
     (exitStatus = "exit1" /\ said = "error" /\ ~capturing)

\* ---- signals before the handlers are registered ----------------------------------
\* main holds a resource: the VM, the browser, the audio capture or the socket
HoldsResource == vmInfo \/ browser \/ audioCapture \/ mainWs # 0

\* C35: a shutdown signal received in any state of main after a resource was
\* acquired leads to the cleanup of the resources before the process exits:
\* the process has not ended on a signal with a resource held and no
\* teardown run.
C35_SignalCleansUpFirst ==
  (delivered # {} /\ proc # "running" /\ HoldsResource) =>
     (proc # "killed" /\ runs # <<>>)

\* The process is ended by a signal only where that signal has no handler:
\* before main has come past startRecording, and in orig for SIGTERM.
KilledOnlyWithoutHandler ==
  proc = "killed" => (handlers # Signals /\ delivered \ handlers # {})

\* ---- signals that arrive twice ----------------------------------------------------
\* the executions of a teardown step: the places of the logs where it starts
Executions(step) ==
  {<<r, i>> \in (1..Len(runs)) \X (1..(2 * Len(StepsOf(variant)))) :
     i <= Len(runs[r].log) /\ runs[r].log[i] = <<step, "start">>}

\* C36: when shutdown signals arrive more than once, or a second one arrives
\* while the cleanup is running, each cleanup step (stop recording, close the
\* transport, close the browser, terminate the VM) is executed at most once.
C36_CleanupStepsAtMostOnce ==
  variant = "index" =>
    \A step \in {"stopRecording", "wsClose", "browserClose", "terminateVM"} :
      Cardinality(Executions(step)) <= 1

\* With one teardown run no step is executed twice.
OneRunOneExecution ==
  Len(runs) <= 1 =>
    \A step \in {"stopRecording", "pageStop", "wsClose", "browserClose", "terminateVM"} :
      Cardinality(Executions(step)) <= 1

\* ---- the monitor after its stop ---------------------------------------------------
\* C37: after the stop() of the monitor controller has returned, the callback
\* is never invoked again, even when a polling discovery or the initial
\* discovery was in flight at the time of the stop.
C37_NoCallbackAfterStop == [][(~isRunning) => (calls' = calls)]_vars

\* What the stop does prevent: no discovery is started after it.
NoDiscoveryStartedAfterStop == [][(~isRunning) => (polls' = polls)]_vars

\* ---- audio-capture.js: the reconnects over the life of the connection ------------
\* C38: in audio-capture.js's connectToWebSocket the attempt counter only
\* increases, so that the reconnects set over the whole life of the returned
\* connection never exceed maxReconnectAttempts, whether or not a reconnect
\* succeeded in between.
C38_ReconnectsBoundedForLife ==
  /\ [](variant = "second" =>
          (scheduled = reconnectAttempt /\ scheduled <= maxReconnectAttempts))
  /\ [][reconnectAttempt' >= reconnectAttempt]_vars

\* ten reconnects were set, one of them at least succeeded, and the socket of
\* the tenth has failed with nothing set after it
C38_ChainEndsAtBound ==
  /\ variant = "second" /\ scheduled = maxReconnectAttempts /\ timers = 0
  /\ Len(socks) = maxReconnectAttempts + 1
  /\ socks[Len(socks)].st = "closed" /\ socks[Len(socks)].code = 1006
  /\ \E s \in 2..Len(socks) : socks[s].opened

\* ---- websocket-client.js: the heartbeat intervals after closeWebSocketConnection --
\* a tick of the interval of socket c that finds the module's wsConnection null
NullTick(c) == wsConnection = 0 /\ Heartbeat(c)

\* C39: once closeWebSocketConnection has closed the connection and cleared
\* the module's wsConnection, every heartbeat interval stops at its next tick:
\* the tick raises no error, sends nothing and clears its interval.
C39_TicksStopQuietlyAfterClose ==
  [][\A c \in hbLive :
       NullTick(c) => (proc' = proc /\ socks' = socks /\ c \notin hbLive')]_vars

\* what the code does: such a tick sends nothing, but it raises, and its
\* interval is never cleared
NullTickRaises ==
  [][\A c \in hbLive :
       NullTick(c) => (proc' = "crashed" /\ socks' = socks /\ hbLive' = hbLive)]_vars

\* a heartbeat tick raised on the connection that closeWebSocketConnection
\* had closed
RaisedAfterClose ==
  /\ proc = "crashed" /\ wsConnection = 0 /\ hbLive # {}
  /\ \E s \in 1..Len(socks) : socks[s].fin > 0 /\ socks[s].code = NORMAL_CLOSURE
====
